---- MODULE Spec2Model ----
(***************************************************************************)
(* Statement ledger, chain verifier and statement validator of investco.   *)
(*                                                                         *)
(* Money is counted in cents (a DecimalField with decimal_places=2), so    *)
(* Decimal('0.01') is 1 and Decimal('1.00') is 100.  Dates are day         *)
(* numbers.  The statement table and the transaction table are the         *)
(* database; every ORM call is one database statement.                     *)
(***************************************************************************)
EXTENDS Integers, Sequences, FiniteSets, TLC

\* ------------------------------------------------------------------ bounds
MaxStmts == 3          \* statement rows that may exist at once (chain history)
MaxLedgerStmts == 2    \* statement rows of the ledger specifications
MaxDate == 3           \* statement dates are 1..MaxDate
MaxTxnId == 8          \* transaction primary keys handed out in one run
MaxUploads == 2        \* PDF uploads of one admin session

\* ------------------------------------------------------- program constants
Cent == 1              \* Decimal('0.01'), the chaining tolerance
Dollar == 100          \* Decimal('1.00'), the reconciliation tolerance
MinUsable == 100       \* characters of stripped text a parser needs
MinDetect == 50        \* characters of stripped text the detection needs

StmtIds == 1..MaxStmts
LedgerIds == 1..MaxLedgerStmts
Dates == 1..MaxDate

Investments == {"annuityA", "annuityB"}

\* Transaction.TRANSACTION_TYPES, the four a statement generates, in the
\* order _create_transactions creates them.
GeneratedTypes == <<"PREMIUM", "WITHDRAWAL", "TAX_WITHHOLDING", "NET_CHANGE">>

VARIABLES
    stmts,      \* the Statement table: pk -> row, NoRow where no row has that pk
    txns,       \* the Transaction table: a set of rows, each with its own pk
    nextTxnId,  \* the next Transaction pk the database hands out
    lastOp,     \* the request that completed last (what a caller observes)
    query,      \* the result of the read evaluated last
    workers,    \* the request workers: where each stands in a save
    parser,     \* the statement parser object: its class, data and validation
    session,    \* request.session of the admin user: a dictionary
    investment  \* one Investment: current_price and its InvestmentValue rows

vars == <<stmts, txns, nextTxnId, lastOp, query, workers, parser, session,
         investment>>

\* What a request on the statement and transaction tables leaves alone.
others == <<workers, parser, session, investment>>

Workers == {"w1", "w2"}
Idle == [pc |-> "idle"]

NoRow == [kind |-> "none"]
NoOp == [op |-> "none"]
NoQuery == [op |-> "none"]
NoParser == [kind |-> "none"]

\* request.session without a key
NoSession == <<>>

\* An investment as created: current_price at its default, no historical value.
NoValues == [current_price |-> 0, historical_values |-> {}, next_id |-> 1]

Abs(x) == IF x < 0 THEN -x ELSE x

\* The empty database.
Init ==
    /\ stmts = [s \in StmtIds |-> NoRow]
    /\ txns = {}
    /\ nextTxnId = 1
    /\ lastOp = NoOp
    /\ query = NoQuery
    /\ workers = [w \in Workers |-> Idle]
    /\ parser = NoParser
    /\ session = NoSession
    /\ investment = NoValues

\* A row of the polymorphic Statement table that is an AnnuityStatement.
AnnuityRow(inv, date, b, e, p, w, t, n) ==
    [kind |-> "annuity", investment |-> inv, statement_date |-> date,
     beginning_value |-> b, ending_value |-> e,
     premiums |-> p, withdrawals |-> w, tax_withholding |-> t, net_change |-> n]

\* A row of the Statement table that is no AnnuityStatement: it has the
\* base fields only and no annuitystatement child row.
BaseRow(inv, date) ==
    [kind |-> "base", investment |-> inv, statement_date |-> date]

\* A row of the Statement table that is a BrokerageAccountStatement: the base
\* fields and the family's beginning_value and ending_value.
BrokerageRow(inv, date, b, e) ==
    [kind |-> "brokerage", investment |-> inv, statement_date |-> date,
     beginning_value |-> b, ending_value |-> e]

Persisted == {s \in StmtIds : stmts[s] # NoRow}

\* statement.generated_transactions.all()
generated_transactions(T, s) == {t \in T : t.source_statement = s}

\* The activity field a generated transaction type is created from.
FieldOf(row, type) ==
    CASE type = "PREMIUM" -> row.premiums
      [] type = "WITHDRAWAL" -> row.withdrawals
      [] type = "TAX_WITHHOLDING" -> row.tax_withholding
      [] type = "NET_CHANGE" -> row.net_change

\* Mutant: net_change is tested like the other three fields ("> 0").
Applicable_NetChangePositive(row, type) == FieldOf(row, type) > 0

\* The guard of each "if" of _create_transactions.
Applicable(row, type) ==
    IF type = "NET_CHANGE" THEN row.net_change # 0 ELSE FieldOf(row, type) > 0

\* One "if ...: Transaction.objects.create(...)" of _create_transactions,
\* on the database state db = [txns, next].
CreateStep(db, row, s, type) ==
    IF Applicable(row, type)
    THEN [txns |-> db.txns \cup
                     {[id |-> db.next, investment |-> row.investment,
                       transaction_type |-> type, amount |-> FieldOf(row, type),
                       date |-> row.statement_date, source_statement |-> s]},
          next |-> db.next + 1]
    ELSE db

\* AnnuityStatement._create_transactions: the four steps in order.
CreateTransactions(db, row, s) ==
    CreateStep(CreateStep(CreateStep(CreateStep(db, row, s, GeneratedTypes[1]),
                                     row, s, GeneratedTypes[2]),
                          row, s, GeneratedTypes[3]),
               row, s, GeneratedTypes[4])

\* Mutant: the delete of the earlier entries is left out.
DeleteGenerated_Skipped(db, s) == db

\* Mutant: the delete misses the NET_CHANGE entries.
DeleteGenerated_KeepsNetChange(db, s) ==
    [db EXCEPT !.txns = {t \in db.txns : t.source_statement # s
                                          \/ t.transaction_type = "NET_CHANGE"}]

\* self.generated_transactions.all().delete()
DeleteGenerated(db, s) ==
    [db EXCEPT !.txns = db.txns \ generated_transactions(db.txns, s)]

\* How many transactions a save of this row creates.
NewTxnCount(row) == Cardinality({i \in 1..4 : Applicable(row, GeneratedTypes[i])})

\* AnnuityStatement.save of an instance without pk: INSERT, then
\* _create_transactions (is_new, so nothing is deleted).
SaveNew(s, row) ==
    /\ stmts[s] = NoRow
    /\ \A r \in StmtIds : r < s => stmts[r] # NoRow
    /\ nextTxnId + NewTxnCount(row) <= MaxTxnId + 1
    /\ LET db == CreateTransactions([txns |-> txns, next |-> nextTxnId], row, s)
       IN /\ stmts' = [stmts EXCEPT ![s] = row]
          /\ txns' = db.txns
          /\ nextTxnId' = db.next
          /\ lastOp' = [op |-> "save", stmt |-> s, is_new |-> TRUE,
                        unchanged |-> FALSE]
          /\ query' = NoQuery
          /\ UNCHANGED others

\* AnnuityStatement.save of a persisted instance: UPDATE, delete the
\* generated transactions, then _create_transactions.
SaveExisting(s, row) ==
    /\ stmts[s] # NoRow
    /\ stmts[s].kind = "annuity"
    /\ nextTxnId + NewTxnCount(row) <= MaxTxnId + 1
    /\ LET db == CreateTransactions(
                    DeleteGenerated([txns |-> txns, next |-> nextTxnId], s), row, s)
       IN /\ stmts' = [stmts EXCEPT ![s] = row]
          /\ txns' = db.txns
          /\ nextTxnId' = db.next
          /\ lastOp' = [op |-> "save", stmt |-> s, is_new |-> FALSE,
                        unchanged |-> (row = stmts[s])]
          /\ query' = NoQuery
          /\ UNCHANGED others

\* ------------------------------------------------------- chain verifier
\* Statement.objects.create / Statement.save for a statement that is no
\* AnnuityStatement: the row is written, no transaction is generated.
SaveBase(s, row) ==
    /\ stmts[s] = NoRow
    /\ \A r \in StmtIds : r < s => stmts[r] # NoRow
    /\ row.kind # "annuity"
    /\ stmts' = [stmts EXCEPT ![s] = row]
    /\ lastOp' = [op |-> "save_base", stmt |-> s, is_new |-> TRUE,
                  unchanged |-> FALSE]
    /\ query' = NoQuery
    /\ UNCHANGED <<txns, nextTxnId>>
    /\ UNCHANGED others

\* An AnnuityStatement instance as the chain properties read it: its
\* investment, statement_date and beginning_value (None on an instance whose
\* beginning_value is not set yet).
Instance(inv, date, has_b, b) ==
    [investment |-> inv, statement_date |-> date,
     has_beginning |-> has_b, beginning_value |-> b]

InstanceOf(s) ==
    Instance(stmts[s].investment, stmts[s].statement_date, TRUE,
             stmts[s].beginning_value)

\* self.investment.statements.filter(statement_date__lt=self.statement_date)
Earlier(self) ==
    {r \in Persisted : /\ stmts[r].investment = self.investment
                       /\ stmts[r].statement_date < self.statement_date}

\* AnnuityStatement.previous_statement: .order_by('-statement_date').first().
\* 0 stands for None.  Among statements that share the latest earlier date
\* the database may return any one.
PreviousChoices(self) ==
    IF Earlier(self) = {} THEN {0}
    ELSE {r \in Earlier(self) :
            \A q \in Earlier(self) : stmts[q].statement_date <= stmts[r].statement_date}

\* hasattr(prev, 'annuitystatement')
HasAnnuityStatement(r) == stmts[r].kind = "annuity"

\* Mutant: the tolerance test is "<=" instead of "<".
WithinCent_Inclusive(a, b) == Abs(a - b) <= Cent

\* abs(a - b) < Decimal('0.01')
WithinCent(a, b) == Abs(a - b) < Cent

\* Mutant: a missing predecessor is reported as "not applicable".
chains_with_previous_NoneForFirst(self, prev) ==
    IF prev = 0 THEN "None"
    ELSE IF ~HasAnnuityStatement(prev) THEN "None"
    ELSE IF ~self.has_beginning THEN "None"
    ELSE IF WithinCent(self.beginning_value, stmts[prev].ending_value)
         THEN "True" ELSE "False"

\* AnnuityStatement.chains_with_previous, with prev the statement that
\* previous_statement returned: "True", "False" or "None".
chains_with_previous(self, prev) ==
    IF prev = 0 THEN "True"
    ELSE IF ~HasAnnuityStatement(prev) THEN "None"
    ELSE IF ~self.has_beginning THEN "None"
    ELSE IF WithinCent(self.beginning_value, stmts[prev].ending_value)
         THEN "True" ELSE "False"

NoGap == [is_none |-> TRUE, amount |-> 0]
Gap(x) == [is_none |-> FALSE, amount |-> x]

\* Mutant: the gap is reported as a magnitude.
chain_gap_Absolute(self, prev) ==
    IF prev = 0 \/ ~HasAnnuityStatement(prev) THEN NoGap
    ELSE IF ~self.has_beginning THEN NoGap
    ELSE Gap(Abs(self.beginning_value - stmts[prev].ending_value))

\* AnnuityStatement.chain_gap, with prev the statement that
\* previous_statement returned.
chain_gap(self, prev) ==
    IF prev = 0 \/ ~HasAnnuityStatement(prev) THEN NoGap
    ELSE IF ~self.has_beginning THEN NoGap
    ELSE Gap(self.beginning_value - stmts[prev].ending_value)

\* The instances the chain properties are evaluated on: every persisted
\* annuity statement, and instances not saved yet.
Unsaved == {Instance("annuityA", d, FALSE, 0) : d \in Dates}

Instances == {InstanceOf(s) : s \in {r \in Persisted : stmts[r].kind = "annuity"}}
             \cup Unsaved

\* Reading statement.chains_with_previous.
ReadChains(self) ==
    /\ \E prev \in PreviousChoices(self) :
          query' = [op |-> "chains_with_previous", self |-> self, prev |-> prev,
                    chains |-> chains_with_previous(self, prev)]
    /\ UNCHANGED <<stmts, txns, nextTxnId, lastOp>>
    /\ UNCHANGED others

\* Reading statement.chain_gap.
ReadChainGap(self) ==
    /\ \E prev \in PreviousChoices(self) :
          query' = [op |-> "chain_gap", self |-> self, prev |-> prev,
                    gap |-> chain_gap(self, prev)]
    /\ UNCHANGED <<stmts, txns, nextTxnId, lastOp>>
    /\ UNCHANGED others

\* list(self.statements.order_by('statement_date')): every arrangement of the
\* investment's statements in ascending date order (statements that share a
\* date come in any order).
DateOrders(inv) ==
    LET S == {r \in Persisted : stmts[r].investment = inv}
        n == Cardinality(S)
    IN {o \in [1..n -> S] :
            /\ \A i, j \in 1..n : i # j => o[i] # o[j]
            /\ \A i \in 1..n : \A j \in 1..n :
                  i < j => stmts[o[i]].statement_date <= stmts[o[j]].statement_date}

\* The dictionary get_statement_gaps appends for the pair (prev, curr).
GapEntry(curr, prev) ==
    [statement_date |-> stmts[curr].statement_date,
     previous_date |-> stmts[prev].statement_date,
     gap_amount |-> stmts[curr].beginning_value - stmts[prev].ending_value,
     previous_ending |-> stmts[prev].ending_value,
     current_beginning |-> stmts[curr].beginning_value]

\* Mutant: a gap of exactly one cent is not reported ("> 0.01").
IsGap_MoreThanCent(curr, prev) ==
    /\ HasAnnuityStatement(curr) /\ HasAnnuityStatement(prev)
    /\ Abs(stmts[curr].beginning_value - stmts[prev].ending_value) > Cent

\* The two "if"s of the loop body of get_statement_gaps.
IsGap(curr, prev) ==
    /\ HasAnnuityStatement(curr) /\ HasAnnuityStatement(prev)
    /\ Abs(stmts[curr].beginning_value - stmts[prev].ending_value) >= Cent

\* Annuity.get_statement_gaps on the list "statements": the entries for the
\* pairs (statements[i-1], statements[i]), i = from..len-1 (1-based here).
RECURSIVE GapsFrom(_, _)
GapsFrom(statements, i) ==
    IF i > Len(statements) THEN <<>>
    ELSE (IF IsGap(statements[i], statements[i - 1])
          THEN <<GapEntry(statements[i], statements[i - 1])>>
          ELSE <<>>) \o GapsFrom(statements, i + 1)

get_statement_gaps(statements) == GapsFrom(statements, 2)

\* Calling annuity.get_statement_gaps().
GetStatementGaps(inv) ==
    /\ \E o \in DateOrders(inv) :
          query' = [op |-> "get_statement_gaps", investment |-> inv,
                    statements |-> o, gaps |-> get_statement_gaps(o)]
    /\ UNCHANGED <<stmts, txns, nextTxnId, lastOp>>
    /\ UNCHANGED others

\* AnnuityStatementAdmin.chains_display: "-" for None, the check mark for
\* True, the cross (with the gap when it is non-zero) otherwise.
AnnuityChainsDisplay(chains, gap) ==
    IF chains = "None" THEN [mark |-> "-", amount |-> 0]
    ELSE IF chains = "True" THEN [mark |-> "ok", amount |-> 0]
    ELSE IF ~gap.is_none /\ gap.amount # 0 THEN [mark |-> "cross", amount |-> gap.amount]
    ELSE [mark |-> "cross", amount |-> 0]

\* BrokerageAccountStatementAdmin.chains_display:
\* '✓' if obj.chains_with_previous else '✗'.
BrokerageChainsDisplay(chains) ==
    IF chains = "True" THEN [mark |-> "ok", amount |-> 0]
    ELSE [mark |-> "cross", amount |-> 0]

\* BrokerageAccountStatement.chains_with_previous: the chain verifier's
\* three outcomes for a statement of that family.
brokerage_chains_with_previous(self, prev) ==
    IF prev = 0 THEN "True"
    ELSE IF stmts[prev].kind = "base" THEN "None"
    ELSE IF Abs(self.beginning_value - stmts[prev].ending_value) < Cent
         THEN "True" ELSE "False"

\* The admin changelists render the "Chains" column of a persisted statement.
ShowAnnuityChains(self) ==
    /\ \E prev \in PreviousChoices(self) :
          query' = [op |-> "annuity_chains_display", self |-> self, prev |-> prev,
                    chains |-> chains_with_previous(self, prev),
                    display |-> AnnuityChainsDisplay(chains_with_previous(self, prev),
                                                     chain_gap(self, prev))]
    /\ UNCHANGED <<stmts, txns, nextTxnId, lastOp>>
    /\ UNCHANGED others

ShowBrokerageChains(self) ==
    /\ \E prev \in PreviousChoices(self) :
          query' = [op |-> "brokerage_chains_display", self |-> self, prev |-> prev,
                    chains |-> brokerage_chains_with_previous(self, prev),
                    display |-> BrokerageChainsDisplay(
                                    brokerage_chains_with_previous(self, prev))]
    /\ UNCHANGED <<stmts, txns, nextTxnId, lastOp>>
    /\ UNCHANGED others

\* Inputs of the chain specification: beginning and ending values vary, the
\* activity fields are zero.
ChainValues == {<<100000, 100000>>, <<100050, 100001>>}

ChainRows ==
    {AnnuityRow("annuityA", d, v[1], v[2], 0, 0, 0, 0) : d \in Dates, v \in ChainValues}
    \cup {AnnuityRow("annuityB", 1, 100050, 100050, 0, 0, 0, 0)}

BaseRows == {BaseRow("annuityA", d) : d \in Dates}

\* A read leaves the database as it is, so the reads are explored from the
\* states a write leaves.
NextChain ==
    \/ \E s \in StmtIds, row \in ChainRows : SaveNew(s, row)
    \/ \E s \in StmtIds, row \in BaseRows : SaveBase(s, row)
    \/ query = NoQuery /\ \E self \in Instances : ReadChains(self)
    \/ query = NoQuery /\ \E self \in Instances : ReadChainGap(self)
    \/ query = NoQuery /\ \E inv \in Investments : GetStatementGaps(inv)

SpecChain == Init /\ [][NextChain]_vars

\* Inputs of the display specification: statements of an annuity and of a
\* brokerage account, with and without a comparable balance.
DisplayAnnuityRows ==
    {AnnuityRow("annuityA", d, v[1], v[2], 0, 0, 0, 0) : d \in {1, 2}, v \in ChainValues}

DisplayOtherRows ==
    {BaseRow("annuityA", 1), BaseRow("brokerageC", 1),
     BrokerageRow("brokerageC", 1, 100000, 100000),
     BrokerageRow("brokerageC", 2, 100000, 100000),
     BrokerageRow("brokerageC", 2, 100050, 100001)}

PersistedInstances(kind) ==
    {InstanceOf(s) : s \in {r \in Persisted : stmts[r].kind = kind}}

NextDisplay ==
    \/ \E s \in StmtIds, row \in DisplayAnnuityRows : SaveNew(s, row)
    \/ \E s \in StmtIds, row \in DisplayOtherRows : SaveBase(s, row)
    \/ query = NoQuery /\ \E self \in PersistedInstances("annuity") : ShowAnnuityChains(self)
    \/ query = NoQuery /\ \E self \in PersistedInstances("brokerage") : ShowBrokerageChains(self)

SpecDisplay == Init /\ [][NextDisplay]_vars

\* Inputs of the ledger specification: the activity fields
\* <<premiums, withdrawals, tax_withholding, net_change>> vary.
LedgerActivity ==
    {<<50000, 0, 0, -2000>>, <<0, 0, 0, 0>>, <<50000, 700, 300, 900>>,
     <<0, 700, 0, 0>>, <<0, 0, 300, 900>>, <<-100, -50, -20, 0>>}

LedgerRows ==
    {AnnuityRow("annuityA", 1, 100000, 100000, a[1], a[2], a[3], a[4]) :
        a \in LedgerActivity}
    \cup {AnnuityRow("annuityA", 2, 100000, 100000, a[1], a[2], a[3], a[4]) :
        a \in {<<50000, 0, 0, -2000>>, <<50000, 700, 300, 900>>}}

\* ------------------------------------------------------ concurrent saves
\* AnnuityStatement.save as the database sees it: super().save(), the delete
\* and each Transaction.objects.create are separate statements, each
\* committed on its own (save opens no transaction).
Active == {w \in Workers : workers[w].pc # "idle"}

\* The transactions the saves in progress may still create.
Reserved ==
    LET left(w) == Cardinality({i \in workers[w].i..4 :
                                   Applicable(workers[w].row, GeneratedTypes[i])})
        RECURSIVE Sum(_)
        Sum(W) == IF W = {} THEN 0
                  ELSE LET w == CHOOSE x \in W : TRUE IN left(w) + Sum(W \ {w})
    IN Sum(Active)

\* is_new = self.pk is None; super().save(*args, **kwargs)
BeginSave(w, s, row) ==
    /\ workers[w] = Idle
    /\ \/ stmts[s] # NoRow /\ stmts[s].kind = "annuity"
       \/ stmts[s] = NoRow /\ \A r \in StmtIds : r < s => stmts[r] # NoRow
    /\ nextTxnId + Reserved + NewTxnCount(row) <= MaxTxnId + 1
    /\ stmts' = [stmts EXCEPT ![s] = row]
    /\ workers' = [workers EXCEPT ![w] =
                      [pc |-> IF stmts[s] = NoRow THEN "create" ELSE "delete",
                       stmt |-> s, row |-> row, is_new |-> stmts[s] = NoRow,
                       before |-> stmts[s], i |-> 1]]
    /\ query' = NoQuery
    /\ UNCHANGED <<txns, nextTxnId, lastOp, parser, session, investment>>

\* if not is_new: self.generated_transactions.all().delete()
StepDelete(w) ==
    /\ workers[w].pc = "delete"
    /\ txns' = DeleteGenerated([txns |-> txns, next |-> nextTxnId], workers[w].stmt).txns
    /\ workers' = [workers EXCEPT ![w].pc = "create"]
    /\ query' = NoQuery
    /\ UNCHANGED <<stmts, nextTxnId, lastOp, parser, session, investment>>

\* The next "if ...: Transaction.objects.create(...)" of _create_transactions;
\* after the fourth, save returns.
StepCreate(w) ==
    /\ workers[w].pc = "create"
    /\ LET me == workers[w]
           db == CreateStep([txns |-> txns, next |-> nextTxnId], me.row, me.stmt,
                            GeneratedTypes[me.i])
       IN /\ txns' = db.txns
          /\ nextTxnId' = db.next
          /\ IF me.i < 4
             THEN /\ workers' = [workers EXCEPT ![w].i = me.i + 1]
                  /\ UNCHANGED lastOp
             ELSE /\ workers' = [workers EXCEPT ![w] = Idle]
                  /\ lastOp' = [op |-> "save", stmt |-> me.stmt, is_new |-> me.is_new,
                                unchanged |-> (me.row = me.before)]
    /\ query' = NoQuery
    /\ UNCHANGED <<stmts, parser, session, investment>>

\* statement_detail: statement.generated_transactions.all(), read by another
\* request while saves may be in progress.
ReadGenerated(s) ==
    /\ stmts[s] # NoRow
    /\ query' = [op |-> "generated_transactions", stmt |-> s,
                 entries |-> generated_transactions(txns, s),
                 saving |-> {workers[w] : w \in {x \in Active : workers[x].stmt = s}}]
    /\ UNCHANGED <<stmts, txns, nextTxnId, lastOp, workers, parser, session, investment>>

\* Inputs of the concurrent specification.
ConcRows ==
    {AnnuityRow("annuityA", 1, 100000, 100000, a[1], a[2], a[3], a[4]) :
        a \in {<<50000, 0, 0, -2000>>, <<50000, 700, 0, 0>>}}

NextConc ==
    \/ \E w \in Workers, s \in LedgerIds, row \in ConcRows : BeginSave(w, s, row)
    \/ \E w \in Workers : StepDelete(w)
    \/ \E w \in Workers : StepCreate(w)
    \/ query = NoQuery /\ \E s \in LedgerIds : ReadGenerated(s)

SpecConc == Init /\ [][NextConc]_vars

\* Two requests save persisted statements again with the field values they
\* already have; the statements were created one at a time.
NextResave ==
    \/ Active = {} /\ \E s \in LedgerIds, row \in ConcRows : SaveNew(s, row)
    \/ \E w \in Workers, s \in LedgerIds :
          stmts[s] # NoRow /\ BeginSave(w, s, stmts[s])
    \/ \E w \in Workers : StepDelete(w)
    \/ \E w \in Workers : StepCreate(w)

SpecResave == Init /\ [][NextResave]_vars

\* One request saves statements while another request reads their entries.
NextReader ==
    \/ \E s \in LedgerIds, row \in LedgerRows : BeginSave("w1", s, row)
    \/ StepDelete("w1")
    \/ StepCreate("w1")
    \/ query = NoQuery /\ \E s \in LedgerIds : ReadGenerated(s)

SpecReader == Init /\ [][NextReader]_vars

\* ---------------------------------------------------------------- ledger
Next ==
    \/ \E s \in LedgerIds, row \in LedgerRows : SaveNew(s, row)
    \/ \E s \in LedgerIds, row \in LedgerRows : SaveExisting(s, row)

Spec == Init /\ [][Next]_vars

\* ---------------------------------------------------- statement parsers
\* The parser classes parse_statement chooses from.
ParserKinds == {"jackson", "tiaa", "valic", "johnhancock401k", "mholdings"}

\* self.data = {}
EmptyData == <<>>

\* self.data[k] = v
Put(d, k, v) == [x \in DOMAIN d \cup {k} |-> IF x = k THEN v ELSE d[x]]

\* What the recovered text offers the extraction rules: m maps the name of a
\* pattern rule that matches to the amount (in cents, as _parse_currency
\* returns it) or date it captures; a rule that does not match is not in m.
Matched(m, rule) == rule \in DOMAIN m

\* The period pattern sets all three dates; m["period"] is <<start, end>>.
PutPeriod(d, m) ==
    IF Matched(m, "period")
    THEN Put(Put(Put(d, "period_start", m["period"][1]),
                 "period_end", m["period"][2]),
             "statement_date", m["period"][2])
    ELSE d

\* if 'statement_date' not in self.data: the alternative date pattern sets
\* statement_date and period_end.
PutAlternativeDate(d, m, rule) ==
    IF "statement_date" \notin DOMAIN d /\ Matched(m, rule)
    THEN Put(Put(d, "statement_date", m[rule]), "period_end", m[rule])
    ELSE d

\* if match: self.data[field] = self._parse_currency(match.group(1))
PutIfMatched(d, m, rule, field) ==
    IF Matched(m, rule) THEN Put(d, field, m[rule]) ELSE d

\* if match: self.data[field] = ... else: self.data[field] = Decimal('0')
PutOrZero(d, m, rule, field) ==
    IF Matched(m, rule) THEN Put(d, field, m[rule]) ELSE Put(d, field, 0)

\* The plain pattern first, else the parenthesised pattern negated, else the
\* field stays absent.
PutSigned(d, m, rule, paren, field) ==
    IF Matched(m, rule) THEN Put(d, field, m[rule])
    ELSE IF Matched(m, paren) THEN Put(d, field, -m[paren])
    ELSE d

\* AnnuityStatementParser._parse_period_dates
Jackson_parse_period_dates(d, m) ==
    LET d1 == PutAlternativeDate(PutPeriod(d, m), m, "ending_date")
    IN IF "period_start" \notin DOMAIN d1 /\ Matched(m, "beginning_date")
       THEN Put(d1, "period_start", m["beginning_date"])
       ELSE d1

\* AnnuityStatementParser._parse_contract_summary
Jackson_parse_contract_summary(d, m) ==
    LET d1 == PutIfMatched(d, m, "beginning_value", "beginning_value")
        d2 == IF Matched(m, "ending_value")
              THEN Put(d1, "ending_value", m["ending_value"])
              ELSE PutIfMatched(d1, m, "ending_value_alt", "ending_value")
        d3 == PutIfMatched(d2, m, "premiums", "premiums")
        d4 == PutIfMatched(d3, m, "withdrawals", "withdrawals")
        d5 == PutIfMatched(d4, m, "tax_withholding", "tax_withholding")
    IN PutSigned(d5, m, "net_change", "net_change_paren", "net_change")

\* TIAAStatementParser._parse_account_values
TIAA_parse_account_values(d, m) ==
    LET d1 == PutIfMatched(d, m, "beginning_value", "beginning_value")
        d2 == PutIfMatched(d1, m, "ending_value", "ending_value")
        d3 == PutOrZero(d2, m, "other_credits", "premiums")
        d4 == Put(Put(d3, "withdrawals", 0), "tax_withholding", 0)
        interest == IF Matched(m, "tiaa_interest") THEN m["tiaa_interest"] ELSE 0
        plain == (IF Matched(m, "gains_loss") THEN m["gains_loss"] ELSE 0) + interest
        net_change == IF Matched(m, "gains_loss_paren")
                      THEN -m["gains_loss_paren"] + interest
                      ELSE plain
    IN Put(d4, "net_change", net_change)

\* ValicStatementParser._parse_value_summary
Valic_parse_value_summary(d, m) ==
    LET d1 == PutIfMatched(d, m, "beginning_value", "beginning_value")
        d2 == PutIfMatched(d1, m, "ending_value", "ending_value")
        d3 == PutOrZero(d2, m, "employer_contributions", "premiums")
        d4 == PutSigned(d3, m, "net_change", "net_change_paren", "net_change")
    IN Put(Put(d4, "withdrawals", 0), "tax_withholding", 0)

\* JohnHancock401kParser._parse_account_values.  Each field tries its
\* patterns in turn and takes the first that matches; a rule of m stands for
\* "one of the field's patterns matches".  The gain/loss pattern captures a
\* leading minus sign, so m["investment_gain_loss"] is signed.
JohnHancock_parse_account_values(d, m) ==
    LET d1 == PutIfMatched(d, m, "beginning_value", "beginning_value")
        d2 == PutIfMatched(d1, m, "ending_value", "ending_value")
        d3 == PutOrZero(d2, m, "employee_contributions", "employee_contributions")
        d4 == PutOrZero(d3, m, "employer_contributions", "employer_contributions")
        gain == IF Matched(m, "investment_gain_loss") THEN m["investment_gain_loss"]
                ELSE IF Matched(m, "investment_gain_loss_paren")
                     THEN -m["investment_gain_loss_paren"]
                ELSE 0
        d5 == Put(d4, "investment_gain_loss",
                  IF Matched(m, "dividends_interest")
                  THEN gain + m["dividends_interest"] ELSE gain)
        d6 == PutOrZero(d5, m, "withdrawals", "withdrawals")
        d7 == IF Matched(m, "fees") THEN Put(d6, "fees", Abs(m["fees"]))
              ELSE Put(d6, "fees", 0)
        d8 == PutOrZero(d7, m, "loan_payments", "loan_payments")
    IN PutIfMatched(d8, m, "vested_balance", "vested_balance")

\* MHoldingsBrokerageParser._parse_account_overview.  "Additions and
\* Withdrawals" is a net amount: plain it is the deposits, parenthesised the
\* withdrawals.  The patterns of market_change and other_activity capture a
\* leading minus sign, so these two rules of m are signed.
MHoldings_parse_account_overview(d, m) ==
    LET d1 == PutOrZero(d, m, "beginning_value", "beginning_value")
        d2 == IF Matched(m, "ending_value")
              THEN Put(d1, "ending_value", m["ending_value"])
              ELSE PutIfMatched(d1, m, "ending_value_alt", "ending_value")
        d3 == IF Matched(m, "additions")
              THEN Put(Put(d2, "deposits", m["additions"]), "withdrawals", 0)
              ELSE IF Matched(m, "additions_paren")
                   THEN Put(Put(d2, "deposits", 0), "withdrawals", m["additions_paren"])
              ELSE Put(Put(d2, "deposits", 0), "withdrawals", 0)
        income_value == IF Matched(m, "income") THEN m["income"] ELSE 0
        d4 == PutIfMatched(d3, m, "income", "total_income")
        dividends == IF Matched(m, "taxable_dividends") THEN m["taxable_dividends"] ELSE 0
        interest == IF Matched(m, "interest") THEN m["interest"] ELSE 0
        d5 == IF Matched(m, "income_section")
              THEN Put(Put(d4, "dividends",
                           IF dividends = 0 /\ interest = 0 /\ income_value > 0
                           THEN income_value ELSE dividends),
                       "interest", interest)
              ELSE Put(Put(d4, "dividends", income_value), "interest", 0)
        d6 == IF Matched(m, "market_change") \/ Matched(m, "market_change_paren")
              THEN PutSigned(d5, m, "market_change", "market_change_paren", "market_change")
              ELSE Put(d5, "market_change", 0)
        d7 == IF Matched(m, "fees") THEN Put(d6, "fees", m["fees"])
              ELSE PutOrZero(d6, m, "fees_paren", "fees")
        d8 == IF Matched(m, "other_activity") \/ Matched(m, "other_activity_paren")
              THEN PutSigned(d7, m, "other_activity", "other_activity_paren",
                             "other_activity")
              ELSE Put(d7, "other_activity", 0)
    IN Put(d8, "capital_gains", 0)

\* AnnuityStatementParser._parse_contract_info: "Contract Number", else
\* "Policy Number".
Jackson_parse_contract_info(d, m) ==
    IF Matched(m, "contract_number") THEN Put(d, "policy_number", m["contract_number"])
    ELSE PutIfMatched(d, m, "policy_number", "policy_number")

\* AnnuityStatementParser._parse_benefit_values
Jackson_parse_benefit_values(d, m) ==
    LET d1 == PutIfMatched(d, m, "remaining_guaranteed_balance",
                           "remaining_guaranteed_balance")
        d2 == PutIfMatched(d1, m, "death_benefit", "death_benefit")
        d3 == PutIfMatched(d2, m, "earnings_determination_baseline",
                           "earnings_determination_baseline")
    IN PutIfMatched(d3, m, "guaranteed_withdrawal_balance_bonus_base",
                    "guaranteed_withdrawal_balance_bonus_baseline")

\* TIAAStatementParser._parse_contract_info and
\* ValicStatementParser._parse_account_info
Annuity_parse_policy_number(d, m) ==
    PutIfMatched(d, m, "policy_number", "policy_number")

\* Mutant: the participant number is stored as policy_number.
JohnHancock_parse_account_info_AsPolicy(d, m) ==
    PutIfMatched(PutIfMatched(d, m, "account_number", "account_number"),
                 m, "participant_number", "policy_number")

\* JohnHancock401kParser._parse_account_info
JohnHancock_parse_account_info(d, m) ==
    PutIfMatched(PutIfMatched(d, m, "account_number", "account_number"),
                 m, "participant_number", "participant_number")

\* MHoldingsBrokerageParser._parse_account_info
MHoldings_parse_account_info(d, m) ==
    PutIfMatched(d, m, "account_number", "account_number")

\* (n / d).quantize(Decimal('0.01')) for n >= 0 in cents: the default
\* rounding of decimal, ROUND_HALF_EVEN.
QuantizeHalfEven(n, d) ==
    LET q == n \div d
        r == n % d
    IN IF 2 * r < d THEN q
       ELSE IF 2 * r > d THEN q + 1
       ELSE IF q % 2 = 0 THEN q ELSE q + 1

\* One class of MHoldingsBrokerageParser._parse_account_allocation: the
\* share of the ending value, or None.  A percentage rule of m captures
\* tenths of a percent ("25.5%" is 255).
PutAllocation(d, m, rule, field) ==
    LET ending_value == IF "ending_value" \in DOMAIN d THEN d["ending_value"] ELSE 0
    IN IF Matched(m, "allocation_section") /\ Matched(m, rule) /\ ending_value > 0
       THEN Put(d, field, QuantizeHalfEven(ending_value * m[rule], 1000))
       ELSE Put(d, field, "None")

\* MHoldingsBrokerageParser._parse_account_allocation
MHoldings_parse_account_allocation(d, m) ==
    PutAllocation(PutAllocation(PutAllocation(d, m, "money_market_pct", "money_market"),
                                m, "equities_pct", "equities"),
                  m, "fixed_income_pct", "fixed_income")

\* The identifier step of the parser class, the first _parse_* call of parse.
ParseInfo(kind, d, m) ==
    CASE kind = "jackson" -> Jackson_parse_contract_info(d, m)
      [] kind \in {"tiaa", "valic"} -> Annuity_parse_policy_number(d, m)
      [] kind = "johnhancock401k" -> JohnHancock_parse_account_info(d, m)
      [] kind = "mholdings" -> MHoldings_parse_account_info(d, m)

\* parser.parse() once the text is recovered: the _parse_* methods in the
\* order parse calls them.
Extract(kind, m) ==
    LET d0 == ParseInfo(kind, EmptyData, m)
    IN CASE kind = "jackson" ->
            Jackson_parse_benefit_values(
                Jackson_parse_contract_summary(Jackson_parse_period_dates(d0, m), m), m)
         [] kind = "tiaa" -> TIAA_parse_account_values(PutPeriod(d0, m), m)
         [] kind = "valic" -> Valic_parse_value_summary(PutPeriod(d0, m), m)
         [] kind = "johnhancock401k" ->
            JohnHancock_parse_account_values(
                PutAlternativeDate(PutPeriod(d0, m), m, "as_of"), m)
         [] kind = "mholdings" ->
            MHoldings_parse_account_allocation(
                MHoldings_parse_account_overview(
                    PutAlternativeDate(PutPeriod(d0, m), m, "as_of"), m), m)

\* --------------------------------------------------- statement validator
\* AnnuityStatement.calculated_change on the fields r of an annuity
\* statement; "None" when beginning_value or ending_value is None.
calculated_change(r) ==
    IF "beginning_value" \notin DOMAIN r \/ "ending_value" \notin DOMAIN r
    THEN [is_none |-> TRUE, amount |-> 0]
    ELSE [is_none |-> FALSE,
          amount |-> r["beginning_value"] + r["premiums"] + r["net_change"]
                        - r["withdrawals"] - r["tax_withholding"]]

\* AnnuityStatement.reconciles: "True", "False" or "None".
reconciles(r) ==
    IF calculated_change(r).is_none \/ "ending_value" \notin DOMAIN r THEN "None"
    ELSE IF Abs(calculated_change(r).amount - r["ending_value"]) < Cent
         THEN "True" ELSE "False"

\* required_fields of AnnuityStatementParser, TIAAStatementParser and
\* ValicStatementParser (the three lists are the same).
Annuity_required_fields ==
    <<"statement_date", "period_start", "period_end",
      "beginning_value", "ending_value",
      "premiums", "withdrawals", "tax_withholding", "net_change">>

\* required_fields of JohnHancock401kParser.validate
JohnHancock_required_fields ==
    <<"statement_date", "period_start", "period_end",
      "beginning_value", "ending_value",
      "employee_contributions", "employer_contributions",
      "investment_gain_loss", "withdrawals", "fees", "loan_payments">>

\* required_fields of MHoldingsBrokerageParser.validate
MHoldings_required_fields ==
    <<"statement_date", "beginning_value", "ending_value",
      "deposits", "withdrawals", "dividends", "interest",
      "market_change", "fees">>

\* Mutant: the loop stops at the first missing field.
MissingFields_FirstOnly(data, required) ==
    LET missing == SelectSeq(required, LAMBDA f : f \notin DOMAIN data)
    IN IF missing = <<>> THEN <<>> ELSE <<missing[1]>>

\* for field in required_fields: if field not in self.data: errors.append(...)
\* An error is kept as the name of the missing field.
MissingFields(data, required) ==
    SelectSeq(required, LAMBDA f : f \notin DOMAIN data)

\* expected_ending of the three annuity validators
Annuity_expected_ending(data) ==
    data["beginning_value"] + data["premiums"] + data["net_change"]
        - data["withdrawals"] - data["tax_withholding"]

\* expected_ending of JohnHancock401kParser.validate
JohnHancock_expected_ending(data) ==
    data["beginning_value"] + data["employee_contributions"]
        + data["employer_contributions"] + data["investment_gain_loss"]
        + data["loan_payments"] - data["withdrawals"] - data["fees"]

\* expected_ending of MHoldingsBrokerageParser.validate; other_activity is
\* read with self.data.get('other_activity', Decimal('0')).
MHoldings_expected_ending(data) ==
    data["beginning_value"] + data["deposits"] - data["withdrawals"]
        + data["dividends"] + data["interest"] + data["capital_gains"]
        + data["market_change"]
        + (IF "other_activity" \in DOMAIN data THEN data["other_activity"] ELSE 0)
        - data["fees"]

\* Mutant: a difference of exactly one dollar is flagged (">=").
Reconcile_FromOneDollar(data, expected_ending) ==
    LET difference == Abs(data["ending_value"] - expected_ending)
    IN IF difference >= Dollar
       THEN <<[expected |-> expected_ending, actual |-> data["ending_value"],
               difference |-> difference]>>
       ELSE <<>>

\* Mutant: the difference is taken without abs, so an ending value below the
\* expected ending is never flagged.
Reconcile_Signed(data, expected_ending) ==
    LET difference == data["ending_value"] - expected_ending
    IN IF difference > Dollar
       THEN <<[expected |-> expected_ending, actual |-> data["ending_value"],
               difference |-> difference]>>
       ELSE <<>>

\* difference = abs(ending_value - expected_ending);
\* if difference > Decimal('1.00'): warnings.append(...).  A warning is kept
\* as the three amounts its message is formatted from.
Reconcile(data, expected_ending) ==
    LET difference == Abs(data["ending_value"] - expected_ending)
    IN IF difference > Dollar
       THEN <<[expected |-> expected_ending, actual |-> data["ending_value"],
               difference |-> difference]>>
       ELSE <<>>

\* AnnuityStatementParser.validate, TIAAStatementParser.validate and
\* ValicStatementParser.validate
Annuity_validate(data) ==
    LET errors == MissingFields(data, Annuity_required_fields)
    IN [outcome |-> "returned", errors |-> errors,
        warnings |-> IF errors = <<>>
                     THEN Reconcile(data, Annuity_expected_ending(data)) ELSE <<>>]

\* JohnHancock401kParser.validate
JohnHancock_validate(data) ==
    LET errors == MissingFields(data, JohnHancock_required_fields)
    IN [outcome |-> "returned", errors |-> errors,
        warnings |-> IF errors = <<>>
                     THEN Reconcile(data, JohnHancock_expected_ending(data)) ELSE <<>>]

\* MHoldingsBrokerageParser.validate.  data['capital_gains'] is read without
\* a presence test: a field map that has the required fields and no
\* capital_gains raises KeyError.
MHoldings_validate(data) ==
    LET errors == MissingFields(data, MHoldings_required_fields)
    IN IF errors = <<>> /\ "capital_gains" \notin DOMAIN data
       THEN [outcome |-> "raised", exception |-> "KeyError"]
       ELSE [outcome |-> "returned", errors |-> errors,
             warnings |-> IF errors = <<>>
                          THEN Reconcile(data, MHoldings_expected_ending(data))
                          ELSE <<>>]

\* parser.validate() of the parser class: the dictionary it returns, or the
\* exception it raises.
validate(kind, data) ==
    CASE kind \in {"jackson", "tiaa", "valic"} -> Annuity_validate(data)
      [] kind = "johnhancock401k" -> JohnHancock_validate(data)
      [] kind = "mholdings" -> MHoldings_validate(data)

NoValidation == [outcome |-> "none"]

\* parser = XxxParser(pdf_path): self.data = {}
NewParser(kind) ==
    /\ parser' = [kind |-> kind, parsed |-> FALSE, data |-> EmptyData,
                  validation |-> NoValidation]
    /\ UNCHANGED <<stmts, txns, nextTxnId, lastOp, query, workers, session, investment>>

\* data = parser.parse(), on a text that offers the matches m
Parse(m) ==
    /\ parser.kind # "none"
    /\ ~parser.parsed
    /\ parser.validation = NoValidation
    /\ parser' = [parser EXCEPT !.parsed = TRUE, !.data = Extract(parser.kind, m)]
    /\ UNCHANGED <<stmts, txns, nextTxnId, lastOp, query, workers, session, investment>>

\* Mutant: a validator that corrects: on a mismatch it overwrites ending_value
\* with the expected ending.
Validate_Corrects ==
    /\ parser.kind # "none"
    /\ parser.validation = NoValidation
    /\ LET v == validate(parser.kind, parser.data)
       IN parser' = [parser EXCEPT
                        !.validation = v,
                        !.data = IF v.outcome = "returned" /\ v.warnings # <<>>
                                 THEN Put(parser.data, "ending_value",
                                          v.warnings[1].expected)
                                 ELSE parser.data]
    /\ UNCHANGED <<stmts, txns, nextTxnId, lastOp, query, workers, session, investment>>

\* validation = parser.validate()
Validate ==
    /\ parser.kind # "none"
    /\ parser.validation = NoValidation
    /\ parser' = [parser EXCEPT !.validation = validate(parser.kind, parser.data)]
    /\ UNCHANGED <<stmts, txns, nextTxnId, lastOp, query, workers, session, investment>>

\* Inputs of the validator specification.  One text per parser class whose
\* printed ending value reconciles, then the same text with the ending value
\* moved by the offsets, with each rule failing to match in turn, and with
\* the parenthesised form of a signed amount.
With(m, rule, v) == Put(m, rule, v)
Without(m, rule) == [x \in DOMAIN m \ {rule} |-> m[x]]

EndingOffsets == {0, 100, 101, -100, -101}

Variations(m) ==
    {With(m, "ending_value", m["ending_value"] + o) : o \in EndingOffsets}
    \cup {Without(m, rule) : rule \in DOMAIN m}

JacksonText ==
    [period |-> <<1, 2>>, beginning_value |-> 1000000, ending_value |-> 1023200,
     premiums |-> 30000, withdrawals |-> 7000, tax_withholding |-> 1100,
     net_change |-> 1300]

\* "Beginning Value on 01/01/2025 $10,000.00", "Ending Value on 03/31/2025
\* $10,300.00", premiums 300.00 and no other activity.
JacksonExample ==
    [beginning_date |-> 1, ending_date |-> 2,
     beginning_value |-> 1000000, ending_value |-> 1030000,
     premiums |-> 30000, withdrawals |-> 0, tax_withholding |-> 0, net_change |-> 0]

TIAAText ==
    [period |-> <<1, 2>>, beginning_value |-> 1000000, ending_value |-> 1031500,
     other_credits |-> 30000, gains_loss |-> 1300, tiaa_interest |-> 200]

ValicText ==
    [period |-> <<1, 2>>, beginning_value |-> 1000000, ending_value |-> 1031300,
     employer_contributions |-> 30000, net_change |-> 1300]

JohnHancockText ==
    [period |-> <<1, 2>>, beginning_value |-> 1000000, ending_value |-> 1036150,
     employee_contributions |-> 30000, employer_contributions |-> 15000,
     investment_gain_loss |-> -2500, dividends_interest |-> 400,
     withdrawals |-> 7000, fees |-> 350, loan_payments |-> 600]

MHoldingsText ==
    [period |-> <<1, 2>>, beginning_value |-> 1000000, ending_value |-> 1028170,
     additions |-> 30000, income |-> 900, income_section |-> 1,
     taxable_dividends |-> 700, interest |-> 200, market_change |-> -2500,
     fees_paren |-> 350, other_activity |-> 120]

Texts(kind) ==
    CASE kind = "jackson" ->
            Variations(JacksonText) \cup Variations(JacksonExample)
            \cup {With(Without(JacksonText, "net_change"), "net_change_paren", 1300),
                  With(Without(JacksonText, "ending_value"), "ending_value_alt", 1023301)}
      [] kind = "tiaa" ->
            Variations(TIAAText)
            \cup {With(Without(TIAAText, "gains_loss"), "gains_loss_paren", 1300)}
      [] kind = "valic" ->
            Variations(ValicText)
            \cup {With(Without(ValicText, "net_change"), "net_change_paren", 1300)}
      [] kind = "johnhancock401k" ->
            Variations(JohnHancockText)
            \cup {With(Without(JohnHancockText, "investment_gain_loss"),
                       "investment_gain_loss_paren", 2500),
                  With(Without(JohnHancockText, "period"), "as_of", 2)}
      [] kind = "mholdings" ->
            Variations(MHoldingsText)
            \cup {With(Without(MHoldingsText, "additions"), "additions_paren", 30000),
                  With(Without(MHoldingsText, "market_change"),
                       "market_change_paren", 2500),
                  With(Without(MHoldingsText, "period"), "as_of", 2)}
      [] OTHER -> {}

NextValidate ==
    \/ \E kind \in ParserKinds : NewParser(kind)
    \/ \E m \in Texts(parser.kind) : Parse(m)
    \/ Validate

SpecValidate == Init /\ [][NextValidate]_vars

\* ------------------------------------------------ text recovery pipeline
\* The three ways a parser reads text from a document: pdfplumber (the direct
\* text layer), PyPDF2 (the alternate text-layer extractor) and OCR.
Stages == <<"plumber", "pypdf", "ocr">>

\* raise ValueError("Unable to extract text from PDF using any method. ...")
ExtractionFailure == "ValueError: Unable to extract text from PDF"

\* datetime.strptime raises ValueError on words that are no date.
DateError == "ValueError: time data does not match format"

\* A document is what each stage yields on it: doc[stage] is the length of the
\* stage's text with the whitespace at both ends stripped (0 for None or an
\* empty string); doc.plumber_raises says that pdfplumber cannot read the
\* file at all and raises; doc.content is what the text says.
\* A text is the sequence of the pieces it is put together from and its
\* stripped length.
NoText == [parts |-> <<>>, len |-> 0]

\* first_page.extract_text(), reader.pages[0].extract_text(),
\* self._extract_text_with_ocr() (which returns "" when OCR fails)
Out(doc, stage) ==
    IF doc[stage] = 0 THEN NoText ELSE [parts |-> <<stage>>, len |-> doc[stage]]

\* a + '\n' + b; the newline counts in the stripped length only between two
\* non-empty texts.
JoinNewline(a, b) ==
    [parts |-> a.parts \o <<"\n">> \o b.parts,
     len |-> IF a.len > 0 /\ b.len > 0 THEN a.len + 1 + b.len ELSE a.len + b.len]

\* Mutant: the threshold test is "<=", so a text of exactly the threshold
\* length is not usable.
Usable_MoreThanThreshold(text) == text.len > MinUsable

\* not (not text or len(text.strip()) < 100)
Usable(text) == text.len >= MinUsable

\* Mutant: OCR is attempted whatever the text-layer stages produced.
StandardRecover_AlwaysOcr(doc) ==
    IF doc.plumber_raises
    THEN [ran |-> <<"plumber">>, text |-> NoText, raised |-> "PdfError"]
    ELSE LET t1 == Out(doc, "plumber")
             t2 == IF Usable(t1) THEN t1 ELSE Out(doc, "pypdf")
             t3 == IF Usable(t2) THEN t2 ELSE Out(doc, "ocr")
             ran == <<"plumber">>
                    \o (IF Usable(t1) THEN <<>> ELSE <<"pypdf">>) \o <<"ocr">>
         IN IF Usable(t3) THEN [ran |-> ran, text |-> t3, raised |-> "none"]
            ELSE [ran |-> ran, text |-> NoText, raised |-> ExtractionFailure]

\* The text recovery at the head of AnnuityStatementParser.parse,
\* ValicStatementParser.parse, JohnHancock401kParser.parse and
\* MHoldingsBrokerageParser.parse: pdfplumber, then PyPDF2 and then OCR while
\* the text is not usable, then the ValueError.  ran lists the stages run.
StandardRecover(doc) ==
    IF doc.plumber_raises
    THEN [ran |-> <<"plumber">>, text |-> NoText, raised |-> "PdfError"]
    ELSE LET t1 == Out(doc, "plumber")
             t2 == IF Usable(t1) THEN t1 ELSE Out(doc, "pypdf")
             t3 == IF Usable(t2) THEN t2 ELSE Out(doc, "ocr")
             ran == <<"plumber">>
                    \o (IF Usable(t1) THEN <<>> ELSE <<"pypdf">>)
                    \o (IF Usable(t2) THEN <<>> ELSE <<"ocr">>)
         IN IF Usable(t3) THEN [ran |-> ran, text |-> t3, raised |-> "none"]
            ELSE [ran |-> ran, text |-> NoText, raised |-> ExtractionFailure]

\* The text recovery at the head of TIAAStatementParser.parse: OCR first,
\* then pdfplumber, then PyPDF2 while the text layer is not usable; the text
\* is text_ocr + '\n' + (text_regular or '').
TIAARecover(doc) ==
    IF doc.plumber_raises
    THEN [ran |-> <<"ocr", "plumber">>, text |-> NoText, raised |-> "PdfError"]
    ELSE LET text_ocr == Out(doc, "ocr")
             t1 == Out(doc, "plumber")
             text_regular == IF Usable(t1) THEN t1 ELSE Out(doc, "pypdf")
             text == JoinNewline(text_ocr, text_regular)
             ran == <<"ocr", "plumber">> \o (IF Usable(t1) THEN <<>> ELSE <<"pypdf">>)
         IN IF Usable(text) THEN [ran |-> ran, text |-> text, raised |-> "none"]
            ELSE [ran |-> ran, text |-> NoText, raised |-> ExtractionFailure]

\* The text recovery of the parser class.
Recover(kind, doc) ==
    IF kind = "tiaa" THEN TIAARecover(doc) ELSE StandardRecover(doc)

\* What a document says: content.tokens are the vendor signature terms in
\* it, content.lines names the vendor whose statement lines it carries,
\* content.m the matches these lines offer that vendor's pattern rules and
\* content.reversed says that some lines are printed right to left (with
\* YRAMMUS, TNEMTSEVNI or DOIREP among them), m then being what the lines
\* offer once reversed back.  The rules of a parser match nothing in the
\* lines of another vendor.
Visible(kind, content) == IF content.lines = kind THEN content.m ELSE <<>>

\* The date rules whose words datetime.strptime is called on without a
\* try: a rule "<rule>_invalid" of m says the pattern matched words that are
\* no date.  MHoldingsBrokerageParser catches the ValueError.
StrptimeRaises(kind, m) ==
    CASE kind = "jackson" ->
            \/ Matched(m, "period_invalid")
            \/ ~Matched(m, "period") /\ Matched(m, "ending_date_invalid")
            \/ ~Matched(m, "period") /\ Matched(m, "beginning_date_invalid")
      [] kind \in {"tiaa", "valic"} -> Matched(m, "period_invalid")
      [] kind = "johnhancock401k" ->
            \/ Matched(m, "period_invalid")
            \/ ~Matched(m, "period") /\ Matched(m, "as_of_invalid")
      [] kind = "mholdings" -> FALSE

\* self.data when strptime raises.  The identifiers are parsed before the
\* dates and the dates before the amounts; only the beginning date of
\* AnnuityStatementParser is parsed after another date (the ending date) has
\* been stored.
DataAtDateError(kind, m) ==
    LET d0 == ParseInfo(kind, EmptyData, m)
    IN IF kind = "jackson" /\ ~Matched(m, "period") /\ ~Matched(m, "ending_date_invalid")
       THEN PutAlternativeDate(d0, m, "ending_date")
       ELSE d0

\* The reversed-line repair of JohnHancock401kParser.parse: when the text
\* holds one of the reversed keywords, every line with a reversed keyword or
\* a reversed amount is replaced by its reverse.
FixReversed(text, content) ==
    IF content.reversed
    THEN [parts |-> <<"line[::-1] of">> \o text.parts, len |-> text.len]
    ELSE text

\* parser.parse(): the text recovery, then the _parse_* methods on the
\* recovered text.  text is the text handed to the _parse_* methods, parsed
\* says that parse returned self.data; when it raised, data is what self.data
\* held at the raise.
parse(kind, doc) ==
    LET r == Recover(kind, doc)
        text == IF kind = "johnhancock401k" THEN FixReversed(r.text, doc.content)
                ELSE r.text
        m == Visible(kind, doc.content)
    IN IF r.raised # "none" THEN r @@ [parsed |-> FALSE, data |-> EmptyData]
       ELSE IF StrptimeRaises(kind, m)
            THEN [ran |-> r.ran, text |-> text, raised |-> DateError,
                  parsed |-> FALSE, data |-> DataAtDateError(kind, m)]
       ELSE [ran |-> r.ran, text |-> text, raised |-> "none",
             parsed |-> TRUE, data |-> Extract(kind, m)]

\* ---------------------------------------------------- format classifier
\* The signature terms the checks of _detect_statement_type search for:
\* "mholdings" is M Holdings or M Financial Holdings, "johnhancock" is John
\* Hancock or johnhancock.com, "plan" is 401k, Retirement Plan, Profit Sharing
\* Plan or Participant with Contributions, "valic" is Corebridge or VALIC,
\* "tiaa" is TIAA or CREF, "jackson" is Jackson or Contract Number.
Tokens == {"mholdings", "johnhancock", "plan", "valic", "tiaa", "jackson"}

\* The text _detect_statement_type collects: pdfplumber, '\n' and PyPDF2, and
\* '\n' and OCR when that is below the parser threshold.
DetectText(doc) ==
    LET t2 == JoinNewline(Out(doc, "plumber"), Out(doc, "pypdf"))
    IN IF t2.len < MinUsable THEN JoinNewline(t2, Out(doc, "ocr")) ELSE t2

\* The signature terms in the collected text: those of the document when
\* some stage read text from it, none in an empty text.
TextTokens(doc) == IF DetectText(doc).len = 0 THEN {} ELSE doc.content.tokens

\* Mutant: the TIAA check comes before the Valic check.
SignatureTag_TiaaBeforeValic(tokens) ==
    IF "mholdings" \in tokens THEN "mholdings"
    ELSE IF "johnhancock" \in tokens /\ "plan" \in tokens THEN "johnhancock401k"
    ELSE IF "tiaa" \in tokens THEN "tiaa"
    ELSE IF "valic" \in tokens THEN "valic"
    ELSE IF "jackson" \in tokens THEN "jackson"
    ELSE "unknown"

\* The sequence of "if re.search(...): return tag" of _detect_statement_type.
SignatureTag(tokens) ==
    IF "mholdings" \in tokens THEN "mholdings"
    ELSE IF "johnhancock" \in tokens /\ "plan" \in tokens THEN "johnhancock401k"
    ELSE IF "valic" \in tokens THEN "valic"
    ELSE IF "tiaa" \in tokens THEN "tiaa"
    ELSE IF "jackson" \in tokens THEN "jackson"
    ELSE "unknown"

\* _detect_statement_type: any exception gives 'unknown', and so does a text
\* of less than 50 characters.
detect_statement_type(doc) ==
    IF doc.plumber_raises THEN "unknown"
    ELSE IF DetectText(doc).len < MinDetect THEN "unknown"
    ELSE SignatureTag(TextTokens(doc))

\* parse_statement(pdf_path): the classifier, the parser class of the tag
\* (AnnuityStatementParser for 'unknown'), parser.parse() and
\* parser.validate().  Nothing is caught: returned says that the pair
\* (data, validation) came back, raised names the exception otherwise.
parse_statement(doc) ==
    LET tag == detect_statement_type(doc)
        kind == IF tag = "unknown" THEN "jackson" ELSE tag
        p == parse(kind, doc)
        v == IF p.raised = "none" THEN validate(kind, p.data) ELSE NoValidation
        raised == IF p.raised # "none" THEN p.raised
                  ELSE IF v.outcome = "raised" THEN v.exception ELSE "none"
    IN [tag |-> tag, kind |-> kind, ran |-> p.ran, text |-> p.text,
        raised |-> raised, returned |-> raised = "none",
        data |-> IF raised = "none" THEN p.data ELSE EmptyData,
        validation |-> IF raised = "none" THEN v ELSE NoValidation]

\* parser = <Class>(pdf_path); parser.parse()
ParseDocument(kind, doc) ==
    /\ parser = NoParser
    /\ query = NoQuery
    /\ parser' = [kind |-> kind, validation |-> NoValidation, doc |-> doc]
                  @@ parse(kind, doc)
    /\ UNCHANGED <<stmts, txns, nextTxnId, lastOp, query, workers, session, investment>>

\* _detect_statement_type(pdf_path)
DetectStatementType(doc) ==
    /\ parser = NoParser
    /\ query = NoQuery
    /\ query' = [op |-> "detect", doc |-> doc, tag |-> detect_statement_type(doc)]
    /\ UNCHANGED <<stmts, txns, nextTxnId, lastOp, workers, parser, session, investment>>

\* parse_statement(pdf_path)
ParseStatement(doc) ==
    /\ parser = NoParser
    /\ query = NoQuery
    /\ query' = [op |-> "parse_statement", doc |-> doc] @@ parse_statement(doc)
    /\ UNCHANGED <<stmts, txns, nextTxnId, lastOp, workers, parser, session, investment>>

\* Inputs of the pipeline specification.  Stage outputs of no text, of some
\* text below the threshold, of one character less than the threshold and of
\* exactly the threshold; files pdfplumber cannot open.
Lens == {0, 40, 99, 100}

Readings ==
    {[plumber |-> a, pypdf |-> b, ocr |-> c, plumber_raises |-> FALSE] :
        a \in Lens, b \in Lens, c \in Lens}
    \cup {[plumber |-> 0, pypdf |-> b, ocr |-> c, plumber_raises |-> TRUE] :
        b \in {0, 100}, c \in {0, 100}}

\* The signature terms a statement of the vendor carries.
SignatureOf(kind) ==
    CASE kind = "mholdings" -> {"mholdings"}
      [] kind = "johnhancock401k" -> {"johnhancock", "plan"}
      [] kind = "valic" -> {"valic"}
      [] kind = "tiaa" -> {"tiaa"}
      [] kind = "jackson" -> {"jackson"}

BaseText(kind) ==
    CASE kind = "jackson" -> JacksonText
      [] kind = "tiaa" -> TIAAText
      [] kind = "valic" -> ValicText
      [] kind = "johnhancock401k" -> JohnHancockText
      [] kind = "mholdings" -> MHoldingsText

\* The vendor's text, the text without its ending value, the text whose
\* period words are no date ("For the period of Foo 1, 2024 to Bar 2, 2024",
\* "13/45/2025 - 14/45/2025"), and the dated-value lines of a Jackson
\* statement with a beginning date that is no date.
PipelineTexts(kind) ==
    {BaseText(kind), Without(BaseText(kind), "ending_value"),
     With(Without(BaseText(kind), "period"), "period_invalid", 1)}
    \cup (IF kind = "jackson"
          THEN {JacksonExample,
                With(Without(JacksonExample, "beginning_date"), "beginning_date_invalid", 1),
                With(Without(JacksonExample, "ending_date"), "ending_date_invalid", 1)}
          ELSE {})

\* The vendor's text with an amount that has a parenthesised rule printed in
\* parentheses, and with a second line that prints it plain.
InParentheses(text, rule) == With(Without(text, rule), rule \o "_paren", Abs(text[rule]))

SignedTexts(kind) ==
    CASE kind = "jackson" ->
            {InParentheses(JacksonText, "net_change"),
             With(JacksonText, "net_change_paren", 900)}
      [] kind = "tiaa" ->
            {InParentheses(TIAAText, "gains_loss"),
             With(TIAAText, "gains_loss_paren", 900),
             Without(InParentheses(TIAAText, "gains_loss"), "tiaa_interest")}
      [] kind = "valic" ->
            {InParentheses(ValicText, "net_change"),
             With(ValicText, "net_change_paren", 900)}
      [] kind = "johnhancock401k" ->
            {InParentheses(JohnHancockText, "investment_gain_loss"),
             With(JohnHancockText, "investment_gain_loss_paren", 900)}
      [] kind = "mholdings" ->
            {InParentheses(MHoldingsText, "additions"),
             InParentheses(MHoldingsText, "market_change"),
             InParentheses(MHoldingsText, "other_activity"),
             With(MHoldingsText, "market_change_paren", 900),
             With(Without(MHoldingsText, "fees_paren"), "fees", 350)}

\* The vendor's text with its identifier lines and its optional sections.
FullTexts(kind) ==
    CASE kind = "jackson" ->
            {[x \in {"contract_number", "remaining_guaranteed_balance", "death_benefit",
                     "earnings_determination_baseline",
                     "guaranteed_withdrawal_balance_bonus_base"} |-> 1200000]
                @@ JacksonText,
             With(JacksonText, "policy_number", 7)}
      [] kind = "tiaa" -> {With(TIAAText, "policy_number", 7)}
      [] kind = "valic" -> {With(ValicText, "policy_number", 7)}
      [] kind = "johnhancock401k" ->
            {[account_number |-> 7, participant_number |-> 8, vested_balance |-> 900000]
                @@ JohnHancockText}
      [] kind = "mholdings" ->
            {[account_number |-> 7, allocation_section |-> 1, money_market_pct |-> 255,
              equities_pct |-> 713, fixed_income_pct |-> 32] @@ MHoldingsText,
             [allocation_section |-> 1, equities_pct |-> 1000]
                @@ Without(MHoldingsText, "ending_value")}

\* Statements with the vendor's signature terms, the same statements with no
\* signature term in the collected text, and a document of other words.
StatementContents ==
    UNION {{[tokens |-> SignatureOf(kind), lines |-> kind, m |-> m, reversed |-> FALSE] :
                m \in PipelineTexts(kind) \cup SignedTexts(kind) \cup FullTexts(kind)} :
            kind \in ParserKinds}
    \cup {[tokens |-> {}, lines |-> kind, m |-> BaseText(kind), reversed |-> FALSE] :
            kind \in ParserKinds}
    \cup {[tokens |-> {}, lines |-> "jackson", m |-> m, reversed |-> FALSE] :
            m \in PipelineTexts("jackson")}
    \cup {[tokens |-> {}, lines |-> "none", m |-> <<>>, reversed |-> FALSE],
          [tokens |-> SignatureOf("johnhancock401k"), lines |-> "johnhancock401k",
           m |-> JohnHancockText, reversed |-> TRUE]}

\* Every combination of signature terms, for the classifier.
SignatureContents ==
    {[tokens |-> t, lines |-> "none", m |-> <<>>, reversed |-> FALSE] : t \in SUBSET Tokens}

Docs(contents) == {r @@ [content |-> c] : r \in Readings, c \in contents}

NextPipeline ==
    \/ /\ parser = NoParser /\ query = NoQuery
       /\ \E kind \in ParserKinds, doc \in Docs(StatementContents) :
            ParseDocument(kind, doc)
    \/ /\ parser = NoParser /\ query = NoQuery
       /\ \E doc \in Docs(SignatureContents \cup StatementContents) :
            DetectStatementType(doc)
    \/ /\ parser = NoParser /\ query = NoQuery
       /\ \E doc \in Docs(SignatureContents \cup StatementContents) :
            ParseStatement(doc)

SpecPipeline == Init /\ [][NextPipeline]_vars

\* ---------------------------------------------------- currency strings
\* An amount string is the sequence of its characters.
DigitChars == <<"0", "1", "2", "3", "4", "5", "6", "7", "8", "9">>

IsDigit(c) == \E i \in 1..Len(DigitChars) : DigitChars[i] = c

DigitValue(c) == (CHOOSE i \in 1..Len(DigitChars) : DigitChars[i] = c) - 1

RECURSIVE Number(_)
Number(ds) ==
    IF ds = <<>> THEN 0
    ELSE 10 * Number(SubSeq(ds, 1, Len(ds) - 1)) + DigitValue(ds[Len(ds)])

\* value_str.replace(old, '')
Remove(str, old) == SelectSeq(str, LAMBDA c : c # old)

\* decimal.Decimal(str) on a numeral: an optional sign, digits with at most
\* one decimal point and at least one digit; any other string raises
\* decimal.InvalidOperation.  The value is coefficient / 10^places.
Decimal(str) ==
    LET signed == str # <<>> /\ str[1] \in {"-", "+"}
        body == IF signed THEN Tail(str) ELSE str
        dots == {i \in 1..Len(body) : body[i] = "."}
        valid == /\ Cardinality(dots) <= 1
                 /\ \A i \in (1..Len(body)) \ dots : IsDigit(body[i])
                 /\ Len(body) > Cardinality(dots)
    IN IF ~valid THEN [outcome |-> "raised", exception |-> "decimal.InvalidOperation"]
       ELSE LET p == IF dots = {} THEN Len(body) + 1 ELSE CHOOSE i \in dots : TRUE
                digits == SubSeq(body, 1, p - 1) \o SubSeq(body, p + 1, Len(body))
            IN [outcome |-> "returned",
                coefficient |-> IF signed /\ str[1] = "-" THEN -Number(digits)
                                ELSE Number(digits),
                places |-> Len(body) - p + (IF dots = {} THEN 1 ELSE 0)]

\* _parse_currency of the five parser classes:
\* cleaned = value_str.replace('$', '').replace(',', ''); return Decimal(cleaned)
parse_currency(value_str) == Decimal(Remove(Remove(value_str, "$"), ","))

\* The forms in which a statement prints an amount of a cents.
RECURSIVE DigitsOf(_)
DigitsOf(n) ==
    IF n < 10 THEN <<DigitChars[n + 1]>>
    ELSE DigitsOf(n \div 10) \o <<DigitChars[(n % 10) + 1]>>

RECURSIVE Grouped(_)
Grouped(ds) ==
    IF Len(ds) <= 3 THEN ds
    ELSE Grouped(SubSeq(ds, 1, Len(ds) - 3)) \o <<",">> \o SubSeq(ds, Len(ds) - 2, Len(ds))

Fraction(a) == <<".", DigitChars[((a % Dollar) \div 10) + 1], DigitChars[(a % 10) + 1]>>

Forms == {"plain", "grouped", "decorated", "parenthesized", "parenthesized_decorated"}

\* "1234.56", "1,234.56", "$1,234.56", "(1234.56)", "($1,234.56)"
Printed(a, form) ==
    CASE form = "plain" -> DigitsOf(a \div Dollar) \o Fraction(a)
      [] form = "grouped" -> Grouped(DigitsOf(a \div Dollar)) \o Fraction(a)
      [] form = "decorated" -> <<"$">> \o Grouped(DigitsOf(a \div Dollar)) \o Fraction(a)
      [] form = "parenthesized" -> <<"(">> \o DigitsOf(a \div Dollar) \o Fraction(a) \o <<")">>
      [] form = "parenthesized_decorated" ->
            <<"(", "$">> \o Grouped(DigitsOf(a \div Dollar)) \o Fraction(a) \o <<")">>

\* Amounts: no dollars, one to seven digits of dollars; no cents, one and two
\* digits of cents.
Amounts ==
    {d * Dollar + c : d \in {0, 5, 500, 1234, 254888, 1234567}, c \in {0, 5, 56, 99}}

\* A parser and an amount to print.
InitCurrency ==
    /\ stmts = [s \in StmtIds |-> NoRow]
    /\ txns = {}
    /\ nextTxnId = 1
    /\ lastOp = NoOp
    /\ workers = [w \in Workers |-> Idle]
    /\ parser = NoParser
    /\ session = NoSession
    /\ investment = NoValues
    /\ \E a \in Amounts : query = [op |-> "parse_currency", amount |-> a, results |-> <<>>]

\* self._parse_currency(value_str), with value_str the amount in the form
ParseCurrency(form) ==
    /\ query.op = "parse_currency"
    /\ form \notin DOMAIN query.results
    /\ query' = [query EXCEPT !.results =
                    Put(@, form, parse_currency(Printed(query.amount, form)))]
    /\ UNCHANGED <<stmts, txns, nextTxnId, lastOp, workers, parser, session, investment>>

NextCurrency == \E form \in Forms : ParseCurrency(form)

SpecCurrency == InitCurrency /\ [][NextCurrency]_vars

\* ------------------------------------------------------ admin PDF import
\* AnnuityStatementAdmin.import_pdf_view.  The policy numbers of the Annuity
\* table.
PolicyNumbers == [annuityA |-> 1200000, annuityB |-> 7]

\* None in the place of a date of the session data.
NoDate == 0

\* data.get(key, default)
Get(data, key, default) == IF key \in DOMAIN data THEN data[key] ELSE default

\* Annuity.objects.get(policy_number=data.get('policy_number')), when the
\* field map has a policy number; "None" when no annuity has it.
MatchedAnnuity(data) ==
    IF \E inv \in Investments : PolicyNumbers[inv] = Get(data, "policy_number", 0)
    THEN CHOOSE inv \in Investments : PolicyNumbers[inv] = Get(data, "policy_number", 0)
    ELSE "None"

\* request.session['parsed_statement_data']: the dates of the field map or
\* None, the amounts or '0' (the four benefit values and the file name, which
\* the ledger rows do not carry, are left out).
SessionData(data) ==
    [statement_date |-> Get(data, "statement_date", NoDate),
     period_start |-> Get(data, "period_start", NoDate),
     period_end |-> Get(data, "period_end", NoDate),
     beginning_value |-> Get(data, "beginning_value", 0),
     ending_value |-> Get(data, "ending_value", 0),
     premiums |-> Get(data, "premiums", 0),
     withdrawals |-> Get(data, "withdrawals", 0),
     tax_withholding |-> Get(data, "tax_withholding", 0),
     net_change |-> Get(data, "net_change", 0),
     matched_annuity_id |-> MatchedAnnuity(data)]

\* The counters of the requests completed so far, kept with the last request:
\* uploads made, statements created, uploads whose field map was stored.
Uploads == IF "uploads" \in DOMAIN lastOp THEN lastOp.uploads ELSE 0
Created == IF "created" \in DOMAIN lastOp THEN lastOp.created ELSE 0
Stored == IF "stored" \in DOMAIN lastOp THEN lastOp.stored ELSE 0

\* POST with pdf_file: parse_statement on the uploaded file; the field map
\* and the validation result go to the session whatever the validation says.
\* An exception of parse_statement leaves the view through the finally.
UploadPdf(doc) ==
    /\ Uploads < MaxUploads
    /\ \E r \in {parse_statement(doc)} :
          /\ session' = IF r.returned
                        THEN Put(Put(session, "parsed_statement_data", SessionData(r.data)),
                                 "validation_result", r.validation)
                        ELSE session
          /\ lastOp' = [op |-> "upload", ok |-> r.returned,
                        uploads |-> Uploads + 1, created |-> Created,
                        stored |-> Stored + (IF r.returned THEN 1 ELSE 0)]
    /\ UNCHANGED <<stmts, txns, nextTxnId, query, workers, parser, investment>>

\* The verification form as submitted without a change: every field holds
\* the value of parsed_statement_data, the annuity is the one chosen.
PrefilledPost(sd, annuity) ==
    [annuity |-> annuity, statement_date |-> sd.statement_date,
     period_start |-> sd.period_start, period_end |-> sd.period_end,
     beginning_value |-> sd.beginning_value, ending_value |-> sd.ending_value,
     premiums |-> sd.premiums, withdrawals |-> sd.withdrawals,
     tax_withholding |-> sd.tax_withholding, net_change |-> sd.net_change]

\* Annuity.objects.get(id=...), date.fromisoformat(...) and Decimal(...) of
\* the POST values all succeed.
PostIsValid(post) ==
    /\ post.annuity \in Investments
    /\ post.statement_date \in Dates
    /\ post.period_start \in Dates
    /\ post.period_end \in Dates

\* The primary key the database gives the next statement.
NextStmtId == CHOOSE s \in StmtIds : stmts[s] = NoRow /\ \A r \in StmtIds : r < s => stmts[r] # NoRow

\* Mutant: a confirm that leaves the pending data in the session.
ConfirmImport_KeepsPending(post) ==
    LET pending == "parsed_statement_data" \in DOMAIN session
        row == AnnuityRow(post.annuity, post.statement_date, post.beginning_value,
                          post.ending_value, post.premiums, post.withdrawals,
                          post.tax_withholding, post.net_change)
        creates == pending /\ PostIsValid(post)
    IN /\ creates => /\ \E s \in StmtIds : stmts[s] = NoRow
                     /\ nextTxnId + NewTxnCount(row) <= MaxTxnId + 1
       /\ IF creates
          THEN LET s == NextStmtId
                   db == CreateTransactions([txns |-> txns, next |-> nextTxnId], row, s)
               IN /\ stmts' = [stmts EXCEPT ![s] = row]
                  /\ txns' = db.txns
                  /\ nextTxnId' = db.next
                  /\ session' = session
                  /\ lastOp' = [op |-> "confirm_import", pending |-> pending,
                                statement |-> s, post |-> post, before |-> session,
                                uploads |-> Uploads, created |-> Created + 1,
                                stored |-> Stored]
          ELSE /\ lastOp' = [op |-> "confirm_import", pending |-> pending,
                             statement |-> 0, post |-> post, before |-> session,
                             uploads |-> Uploads, created |-> Created,
                             stored |-> Stored]
               /\ UNCHANGED <<stmts, txns, nextTxnId, session>>
       /\ UNCHANGED <<query, workers, parser, investment>>

\* POST with confirm_import: without parsed_statement_data in the session the
\* request is rejected; else AnnuityStatement.objects.create with the POST
\* values (the save generates the transactions) and the two session keys are
\* deleted; any exception of the try is reported and nothing is created.
\* validation_result is not looked at.
ConfirmImport(post) ==
    LET pending == "parsed_statement_data" \in DOMAIN session
        row == AnnuityRow(post.annuity, post.statement_date, post.beginning_value,
                          post.ending_value, post.premiums, post.withdrawals,
                          post.tax_withholding, post.net_change)
        creates == pending /\ PostIsValid(post)
    IN /\ creates => /\ \E s \in StmtIds : stmts[s] = NoRow
                     /\ nextTxnId + NewTxnCount(row) <= MaxTxnId + 1
       /\ IF creates
          THEN LET s == NextStmtId
                   db == CreateTransactions([txns |-> txns, next |-> nextTxnId], row, s)
               IN /\ stmts' = [stmts EXCEPT ![s] = row]
                  /\ txns' = db.txns
                  /\ nextTxnId' = db.next
                  /\ session' = Without(Without(session, "parsed_statement_data"),
                                        "validation_result")
                  /\ lastOp' = [op |-> "confirm_import", pending |-> pending,
                                statement |-> s, post |-> post, before |-> session,
                                uploads |-> Uploads, created |-> Created + 1,
                                stored |-> Stored]
          ELSE /\ lastOp' = [op |-> "confirm_import", pending |-> pending,
                             statement |-> 0, post |-> post, before |-> session,
                             uploads |-> Uploads, created |-> Created,
                             stored |-> Stored]
               /\ UNCHANGED <<stmts, txns, nextTxnId, session>>
       /\ UNCHANGED <<query, workers, parser, investment>>

\* POST with cancel_import: both session keys are deleted if present.
CancelImport ==
    /\ session' = Without(Without(session, "parsed_statement_data"), "validation_result")
    /\ lastOp' = [op |-> "cancel_import", uploads |-> Uploads, created |-> Created,
                  stored |-> Stored]
    /\ UNCHANGED <<stmts, txns, nextTxnId, query, workers, parser, investment>>

\* Inputs of the import specification.  Scanned Jackson statements: complete,
\* without the ending value, without the period line, with the dated value
\* lines, with a contract number of the Annuity table (with and without the
\* ending value); a file no stage reads.
ImportTexts ==
    {JacksonText, Without(JacksonText, "ending_value"), Without(JacksonText, "period"),
     JacksonExample, With(JacksonText, "contract_number", PolicyNumbers["annuityA"]),
     Without(With(JacksonText, "contract_number", PolicyNumbers["annuityA"]), "ending_value")}

ImportDocs ==
    {[plumber |-> 0, pypdf |-> 0, ocr |-> MinUsable, plumber_raises |-> FALSE,
      content |-> [tokens |-> SignatureOf("jackson"), lines |-> "jackson", m |-> m,
                   reversed |-> FALSE]] : m \in ImportTexts}
    \cup {[plumber |-> 0, pypdf |-> 0, ocr |-> 0, plumber_raises |-> FALSE,
           content |-> [tokens |-> {}, lines |-> "none", m |-> <<>>, reversed |-> FALSE]]}

\* The form of a stale page, submitted when nothing is pending.
StalePost == PrefilledPost(SessionData(Extract("jackson", JacksonText)), "annuityA")

\* What the user submits: the pre-filled form with the matched annuity or
\* one picked by hand, as it is or with the missing dates typed in.
FillDates(post) ==
    [post EXCEPT !.statement_date = IF @ = NoDate THEN 2 ELSE @,
                 !.period_start = IF @ = NoDate THEN 1 ELSE @,
                 !.period_end = IF @ = NoDate THEN 2 ELSE @]

Posts ==
    IF "parsed_statement_data" \notin DOMAIN session THEN {StalePost}
    ELSE LET sd == session["parsed_statement_data"]
             forms == {PrefilledPost(sd, a) : a \in {sd.matched_annuity_id, "annuityB"}}
         IN forms \cup {FillDates(f) : f \in forms}

NextImport ==
    \/ \E doc \in ImportDocs : UploadPdf(doc)
    \/ \E post \in Posts : ConfirmImport(post)
    \/ CancelImport

SpecImport == Init /\ [][NextImport]_vars

\* -------------------------------------------------- deleting a statement
\* The place of a deleted row: its primary key is not handed out again.
DeletedRow == [kind |-> "deleted"]

\* Transaction.objects.create by hand (TransactionAdmin): source_statement
\* stays null, written 0.
AddTransaction(inv, type, amount, date) ==
    /\ nextTxnId <= MaxTxnId
    /\ txns' = txns \cup {[id |-> nextTxnId, investment |-> inv,
                           transaction_type |-> type, amount |-> amount,
                           date |-> date, source_statement |-> 0]}
    /\ nextTxnId' = nextTxnId + 1
    /\ lastOp' = [op |-> "add_transaction"]
    /\ query' = NoQuery
    /\ UNCHANGED <<stmts, workers, parser, session, investment>>

\* Mutant: the cascade takes every transaction of the statement's investment.
Cascade_WholeInvestment(T, s) ==
    {t \in T : t.investment # stmts[s].investment}

\* on_delete=CASCADE of Transaction.source_statement: what is left of the
\* Transaction table when statement s goes.
Cascade(T, s) == {t \in T : t.source_statement # s}

\* statement.delete(): the row and, by the cascade, its transactions.
DeleteStatement(s) ==
    /\ stmts[s] \notin {NoRow, DeletedRow}
    /\ stmts' = [stmts EXCEPT ![s] = DeletedRow]
    /\ txns' = Cascade(txns, s)
    /\ lastOp' = [op |-> "delete", stmt |-> s, row |-> stmts[s], before |-> txns]
    /\ query' = NoQuery
    /\ UNCHANGED <<nextTxnId, workers, parser, session, investment>>

\* Inputs: statements of one annuity on two dates, and entries made by hand
\* (one of them of a type the statements generate too).
DeleteRows ==
    {AnnuityRow("annuityA", 1, 100000, 100000, 50000, 0, 0, -2000),
     AnnuityRow("annuityA", 2, 100000, 100000, 0, 700, 0, 900)}

ManualEntries ==
    {<<"annuityA", "PREMIUM", 50000, 1>>, <<"annuityB", "BUY", 1200, 2>>}

NextDelete ==
    \/ \E s \in LedgerIds, row \in DeleteRows : SaveNew(s, row)
    \/ \E s \in LedgerIds, row \in DeleteRows : SaveExisting(s, row)
    \/ \E e \in ManualEntries : AddTransaction(e[1], e[2], e[3], e[4])
    \/ \E s \in LedgerIds : DeleteStatement(s)

SpecDelete == Init /\ [][NextDelete]_vars

\* ------------------------------------------------ reversed-line repair
\* JohnHancock401kParser.parse, the repair of lines extracted in reversed
\* character order, on strings written as sequences of characters.
MaxLines == 3          \* lines of a recovered text

reversed_keywords ==
    <<<<"Y", "R", "A", "M", "M", "U", "S">>,
      <<"T", "N", "E", "M", "T", "S", "E", "V", "N", "I">>,
      <<"D", "O", "I", "R", "E", "P">>,
      <<"T", "N", "E", "M", "E", "T", "A", "T", "S">>,
      <<"e", "c", "n", "a", "l", "a", "B">>,
      <<"e", "u", "l", "a", "V">>,
      <<"h", "t", "w", "o", "r", "G">>,
      <<"g", "n", "i", "n", "e", "p", "O">>,
      <<"g", "n", "i", "s", "o", "l", "C">>,
      <<"d", "n", "u", "F">>,
      <<"p", "a", "C">>,
      <<"l", "a", "n", "o", "i", "t", "a", "n", "r", "e", "t", "n", "I">>,
      <<"e", "m", "o", "c", "n", "I">>,
      <<"s", "n", "o", "i", "t", "u", "b", "i", "r", "t", "n", "o", "C">>,
      <<"t", "n", "a", "p", "i", "c", "i", "t", "r", "a", "P">>,
      <<"s", "t", "n", "e", "m", "y", "a", "P">>,
      <<"s", "n", "o", "i", "t", "p", "m", "e", "d", "e", "R">>,
      <<"t", "e", "k", "r", "a", "M">>,
      <<"e", "g", "n", "a", "h", "C">>>>

\* The three keywords looked for in the whole text.
trigger_keywords == SubSeq(reversed_keywords, 1, 3)

\* keyword in line
Contains(line, keyword) ==
    \E i \in 1..(Len(line) - Len(keyword) + 1) :
        SubSeq(line, i, i + Len(keyword) - 1) = keyword

\* currency_pattern.search(line), \d{2}\.\d{3},\d{2,3}
currency_pattern(line) ==
    \E i \in 1..(Len(line) - 8) :
        /\ \A j \in {0, 1, 3, 4, 5, 7, 8} : IsDigit(line[i + j])
        /\ line[i + 2] = "."
        /\ line[i + 6] = ","

\* line[::-1]
Reversed(line) == [i \in 1..Len(line) |-> line[Len(line) + 1 - i]]

\* text.split('\n')
RECURSIVE Split(_)
Split(text) ==
    IF \A i \in 1..Len(text) : text[i] # "\n" THEN <<text>>
    ELSE LET i == CHOOSE k \in 1..Len(text) :
                      text[k] = "\n" /\ \A j \in 1..(k - 1) : text[j] # "\n"
         IN <<SubSeq(text, 1, i - 1)>> \o Split(SubSeq(text, i + 1, Len(text)))

\* '\n'.join(lines)
RECURSIVE Join(_)
Join(lines) ==
    IF Len(lines) = 0 THEN <<>>
    ELSE IF Len(lines) = 1 THEN lines[1]
    ELSE lines[1] \o <<"\n">> \o Join(Tail(lines))

\* The test made on each line.
IsReversedLine(line) ==
    \/ \E k \in 1..Len(reversed_keywords) : Contains(line, reversed_keywords[k])
    \/ currency_pattern(line)

\* The repair: only a text holding one of the three keywords is worked on.
ReverseLines(text) ==
    IF \E k \in 1..Len(trigger_keywords) : Contains(text, trigger_keywords[k])
    THEN LET lines == Split(text)
         IN Join([i \in 1..Len(lines) |->
                    IF IsReversedLine(lines[i]) THEN Reversed(lines[i]) ELSE lines[i]])
    ELSE text

\* Inputs: texts of up to MaxLines lines out of
\* the reversed heading of the summary table,
\* a reversed table row: keyword and amount,
\* a reversed amount alone,
\* a row in reading order,
\* a reversed heading that is none of the three tested on the text,
\* and the empty line.
SampleLines ==
    {<<"Y", "R", "A", "M", "M", "U", "S">>,
     <<"e", "c", "n", "a", "l", "a", "B", " ", "7", "7", ".", "8", "2", "4", ",", "1", "5", "1">>,
     <<"7", "7", ".", "8", "2", "4", ",", "1", "5", "1">>,
     <<"B", "a", "l", "a", "n", "c", "e", " ", "1", "5", "1", ",", "4", "2", "8", ".", "7", "7">>,
     <<"e", "u", "l", "a", "V", " ", "t", "e", "k", "r", "a", "M">>,
     <<>>}

SampleTexts ==
    {Join(ls) : ls \in UNION {[1..n -> SampleLines] : n \in 1..MaxLines}}

InitReversal ==
    /\ stmts = [s \in StmtIds |-> NoRow]
    /\ txns = {}
    /\ nextTxnId = 1
    /\ lastOp = NoOp
    /\ workers = [w \in Workers |-> Idle]
    /\ parser = NoParser
    /\ session = NoSession
    /\ investment = NoValues
    /\ \E text \in SampleTexts : query = [op |-> "reverse_lines", text |-> text, done |-> FALSE]

\* The repair step of parse on the recovered text.
RepairText ==
    /\ query.op = "reverse_lines"
    /\ ~query.done
    /\ query' = [op |-> "reverse_lines", text |-> query.text, done |-> TRUE,
                 out |-> ReverseLines(query.text)]
    /\ UNCHANGED <<stmts, txns, nextTxnId, lastOp, workers, parser, session, investment>>

NextReversal == RepairText

SpecReversal == InitReversal /\ [][NextReversal]_vars

\* ------------------------------------------------- historical values
MaxValues == 3         \* InvestmentValue rows created in one run

Prices == {10 * Dollar, 12 * Dollar}

\* unique_together = ['investment', 'date']: the INSERT or UPDATE that would
\* give two rows of the investment one date raises IntegrityError.
DateTaken(id, date) ==
    \E v \in investment.historical_values : v.date = date /\ v.id # id

\* self.investment.historical_values.order_by('-date').first()
latest_value(values) == CHOOSE v \in values : \A u \in values : u.date <= v.date

\* InvestmentValue.save after super().save(): current_price becomes the
\* price of the saved value if that value is the latest one.
SavedPrice(values, id, price, current) ==
    IF values # {} /\ latest_value(values).id = id THEN price ELSE current

\* InvestmentValue.save of a new value (InvestmentValue.objects.create).
SaveValue(date, price) ==
    /\ investment.next_id <= MaxValues
    /\ ~DateTaken(investment.next_id, date)
    /\ LET id == investment.next_id
           values == investment.historical_values
                        \cup {[id |-> id, date |-> date, price |-> price]}
       IN investment' = [current_price |-> SavedPrice(values, id, price,
                                                       investment.current_price),
                         historical_values |-> values, next_id |-> id + 1]
    /\ lastOp' = [op |-> "save_value", date |-> date, is_new |-> TRUE]
    /\ UNCHANGED <<stmts, txns, nextTxnId, query, workers, parser, session>>

\* InvestmentValue.save of a persisted value with a new date or price.
ResaveValue(id, date, price) ==
    /\ \E v \in investment.historical_values : v.id = id
    /\ ~DateTaken(id, date)
    /\ LET values == {v \in investment.historical_values : v.id # id}
                        \cup {[id |-> id, date |-> date, price |-> price]}
       IN investment' = [investment EXCEPT
                            !.current_price = SavedPrice(values, id, price, @),
                            !.historical_values = values]
    /\ lastOp' = [op |-> "save_value", date |-> date, is_new |-> FALSE]
    /\ UNCHANGED <<stmts, txns, nextTxnId, query, workers, parser, session>>

\* views.add_investment_value with a price and a date: the value is created
\* (its save runs), then current_price is set to the posted price.
add_investment_value(date, price) ==
    /\ investment.next_id <= MaxValues
    /\ ~DateTaken(investment.next_id, date)
    /\ LET id == investment.next_id
           values == investment.historical_values
                        \cup {[id |-> id, date |-> date, price |-> price]}
       IN investment' = [current_price |-> price,
                         historical_values |-> values, next_id |-> id + 1]
    /\ lastOp' = [op |-> "add_investment_value", date |-> date, is_new |-> TRUE]
    /\ UNCHANGED <<stmts, txns, nextTxnId, query, workers, parser, session>>

NextValues ==
    \/ \E date \in Dates, price \in Prices : SaveValue(date, price)
    \/ \E id \in 1..MaxValues, date \in Dates, price \in Prices :
          ResaveValue(id, date, price)
    \/ \E date \in Dates, price \in Prices : add_investment_value(date, price)

SpecValues == Init /\ [][NextValues]_vars

\* ------------------------------------------------ annuity performance
\* Sum('amount') over a set of transactions; the callers turn the None of an
\* empty set into 0.
RECURSIVE SumAmount(_)
SumAmount(T) ==
    IF T = {} THEN 0
    ELSE LET t == CHOOSE x \in T : TRUE IN t.amount + SumAmount(T \ {t})

\* self.transactions.filter(transaction_type=type).aggregate(Sum('amount')) or 0
TypeTotal(inv, type) ==
    SumAmount({t \in txns : t.investment = inv /\ t.transaction_type = type})

\* self.statements
StatementsOf(inv) ==
    {s \in StmtIds : stmts[s] \notin {NoRow, DeletedRow} /\ stmts[s].investment = inv}

\* self.statements.order_by('-statement_date').first(); 0 stands for None,
\* and statements that share the date come in any order.
LatestChoices(inv) ==
    IF StatementsOf(inv) = {} THEN {0}
    ELSE {s \in StatementsOf(inv) :
            \A r \in StatementsOf(inv) : stmts[r].statement_date <= stmts[s].statement_date}

\* statements.order_by('statement_date').first()
EarliestChoices(inv) ==
    IF StatementsOf(inv) = {} THEN {0}
    ELSE {s \in StatementsOf(inv) :
            \A r \in StatementsOf(inv) : stmts[s].statement_date <= stmts[r].statement_date}

\* The sum both properties build from the four transaction totals.
NetOfTransactions(inv) ==
    TypeTotal(inv, "PREMIUM") - TypeTotal(inv, "WITHDRAWAL")
        - TypeTotal(inv, "TAX_WITHHOLDING") + TypeTotal(inv, "NET_CHANGE")

\* Annuity.current_value, with latest the statement the query returned: its
\* ending value if it is an AnnuityStatement, else the transaction sum.
current_value(inv, latest) ==
    IF latest # 0 /\ HasAnnuityStatement(latest) THEN stmts[latest].ending_value
    ELSE NetOfTransactions(inv)

\* Mutant: the breakdown starts from zero.
initial_balance_Zero(earliest) == 0

\* initial_balance of get_performance_breakdown: the beginning value of the
\* earliest statement if it is an AnnuityStatement.
initial_balance(earliest) ==
    IF earliest # 0 /\ HasAnnuityStatement(earliest) THEN stmts[earliest].beginning_value
    ELSE 0

\* Annuity.get_performance_breakdown() without as_of_date.
get_performance_breakdown(inv, earliest) ==
    [initial_balance |-> initial_balance(earliest),
     total_premiums |-> TypeTotal(inv, "PREMIUM"),
     withdrawals |-> TypeTotal(inv, "WITHDRAWAL"),
     tax_withholdings |-> TypeTotal(inv, "TAX_WITHHOLDING"),
     net_investment_change |-> TypeTotal(inv, "NET_CHANGE"),
     current_value |-> initial_balance(earliest) + NetOfTransactions(inv),
     investment_gain_loss |-> TypeTotal(inv, "NET_CHANGE"),
     total_out_of_pocket |-> TypeTotal(inv, "PREMIUM")]

\* Calling annuity.get_performance_breakdown().
GetPerformanceBreakdown(inv) ==
    /\ \E earliest \in EarliestChoices(inv) :
          query' = [op |-> "get_performance_breakdown", investment |-> inv,
                    breakdown |-> get_performance_breakdown(inv, earliest)]
    /\ UNCHANGED <<stmts, txns, nextTxnId, lastOp>>
    /\ UNCHANGED others

\* Reading annuity.current_value.
ReadCurrentValue(inv) ==
    /\ \E latest \in LatestChoices(inv) :
          query' = [op |-> "current_value", investment |-> inv,
                    value |-> current_value(inv, latest)]
    /\ UNCHANGED <<stmts, txns, nextTxnId, lastOp>>
    /\ UNCHANGED others

\* Inputs: two statements that reconcile and chain from one to the next, one
\* that does not reconcile, one with a negative withdrawal (it chains with
\* the first, not with the second), and a plain Statement.
PerformanceRows ==
    {AnnuityRow("annuityA", 1, 100000, 148000, 50000, 0, 0, -2000),
     AnnuityRow("annuityA", 2, 148000, 147900, 0, 700, 300, 900),
     AnnuityRow("annuityA", 2, 148000, 150000, 0, 700, 300, 900),
     AnnuityRow("annuityA", 3, 148000, 148100, 0, -100, 0, 0)}

NextPerformance ==
    \/ \E s \in LedgerIds, row \in PerformanceRows : SaveNew(s, row)
    \/ \E s \in LedgerIds, row \in PerformanceRows : SaveExisting(s, row)
    \/ \E s \in LedgerIds : SaveBase(s, BaseRow("annuityA", 1))
    \/ AddTransaction("annuityA", "PREMIUM", 50000, 1)
    \/ query = NoQuery /\ GetPerformanceBreakdown("annuityA")
    \/ query = NoQuery /\ ReadCurrentValue("annuityA")

SpecPerformance == Init /\ [][NextPerformance]_vars

\* ------------------------------------------------- derived-activity claims
\* A transaction without its primary key: what makes two entries "the same".
Entry(t) == [transaction_type |-> t.transaction_type, amount |-> t.amount,
             date |-> t.date, investment |-> t.investment,
             source_statement |-> t.source_statement]

Entries(T, s) == {Entry(t) : t \in generated_transactions(T, s)}

OfType(T, s, type) == {t \in generated_transactions(T, s) : t.transaction_type = type}

TypeSet == {GeneratedTypes[i] : i \in 1..4}

SpecExample(row) ==
    /\ row.premiums = 50000 /\ row.withdrawals = 0
    /\ row.tax_withholding = 0 /\ row.net_change = -2000

\* The step is a re-save of statement lastOp'.stmt with identical field values.
IsIdenticalResave ==
    /\ lastOp'.op = "save"
    /\ lastOp'.unchanged
    /\ stmts' = stmts

\* C1: a re-save of a statement with identical field values leaves the same
\* derived transactions as before it (same count, same types, amounts, dates,
\* all tagged with the statement), so any number of saves equals one save;
\* premiums=500, withdrawals=0, tax_withholding=0, net_change=-20 has two
\* entries after the re-save, not four.
C1_ResaveIdempotent ==
    [][IsIdenticalResave =>
        LET s == lastOp'.stmt
        IN /\ Cardinality(generated_transactions(txns', s))
                = Cardinality(generated_transactions(txns, s))
           /\ Entries(txns', s) = Entries(txns, s)
           /\ SpecExample(stmts'[s]) =>
                /\ Cardinality(generated_transactions(txns', s)) = 2
                /\ {<<t.transaction_type, t.amount>> :
                        t \in generated_transactions(txns', s)}
                     = {<<"PREMIUM", 50000>>, <<"NET_CHANGE", -2000>>}]_vars

C1_Witness ==
    /\ lastOp.op = "save"
    /\ lastOp.unchanged
    /\ SpecExample(stmts[lastOp.stmt])
    /\ Cardinality(generated_transactions(txns, lastOp.stmt)) = 2

\* The entries of one type are exactly one entry carrying the field's value,
\* the statement's date, investment and tag.
ExactlyOneEntry(s, type) ==
    /\ Cardinality(OfType(txns, s, type)) = 1
    /\ \A t \in OfType(txns, s, type) :
          /\ t.amount = FieldOf(stmts[s], type)
          /\ t.date = stmts[s].statement_date
          /\ t.investment = stmts[s].investment

\* C2 as stated: after a save, one entry per non-zero field among premiums,
\* withdrawals, tax_withholding and net_change, and none for a zero field.
C2_OnePerNonZeroField ==
    lastOp.op = "save" =>
        \A type \in TypeSet :
            IF FieldOf(stmts[lastOp.stmt], type) # 0
            THEN ExactlyOneEntry(lastOp.stmt, type)
            ELSE OfType(txns, lastOp.stmt, type) = {}

\* C2 amended: after a save, the entries tagged with the statement are exactly
\* one per strictly positive field among premiums, withdrawals and
\* tax_withholding and one for a non-zero net_change, each with the field's
\* value, the statement's date and the statement as source; a zero (or, for
\* the first three, negative) field has no entry.
C2_OnePerPositiveField ==
    lastOp.op = "save" =>
        LET s == lastOp.stmt
            row == stmts[s]
        IN /\ IF row.premiums > 0 THEN ExactlyOneEntry(s, "PREMIUM")
                                  ELSE OfType(txns, s, "PREMIUM") = {}
           /\ IF row.withdrawals > 0 THEN ExactlyOneEntry(s, "WITHDRAWAL")
                                     ELSE OfType(txns, s, "WITHDRAWAL") = {}
           /\ IF row.tax_withholding > 0 THEN ExactlyOneEntry(s, "TAX_WITHHOLDING")
                                         ELSE OfType(txns, s, "TAX_WITHHOLDING") = {}
           /\ IF row.net_change # 0 THEN ExactlyOneEntry(s, "NET_CHANGE")
                                    ELSE OfType(txns, s, "NET_CHANGE") = {}
           /\ \A t \in generated_transactions(txns, s) : t.transaction_type \in TypeSet

C2_Witness ==
    /\ lastOp.op = "save"
    /\ stmts[lastOp.stmt].premiums > 0 /\ stmts[lastOp.stmt].withdrawals > 0
    /\ stmts[lastOp.stmt].tax_withholding > 0 /\ stmts[lastOp.stmt].net_change # 0
    /\ Cardinality(generated_transactions(txns, lastOp.stmt)) = 4

\* C3: after a save that follows earlier saves of the statement, the entries
\* tagged with it come from this save only: none of them existed before the
\* save, every entry carries the current value of its field, a positive (for
\* net_change: non-zero) field has exactly one entry, and a field that is
\* now zero has none.
C3_OnlyLatestSave ==
    [][(lastOp'.op = "save") =>
        LET s == lastOp'.stmt
            new == generated_transactions(txns', s)
        IN /\ \A t \in new : t \notin txns
           /\ \A t \in new : /\ t.amount = FieldOf(stmts'[s], t.transaction_type)
                              /\ t.date = stmts'[s].statement_date
           /\ \A type \in TypeSet :
                LET n == Cardinality({t \in new : t.transaction_type = type})
                    v == FieldOf(stmts'[s], type)
                IN /\ n <= 1
                   /\ v = 0 => n = 0
                   /\ (v > 0 \/ (type = "NET_CHANGE" /\ v # 0)) => n = 1]_vars

\* A re-save changed the premium, set a field to zero, and the old entries
\* are gone.
C3_Witness ==
    /\ lastOp.op = "save"
    /\ ~lastOp.is_new
    /\ ~lastOp.unchanged
    /\ stmts[lastOp.stmt].net_change = 0
    /\ stmts[lastOp.stmt].withdrawals = 700
    /\ \E t \in generated_transactions(txns, lastOp.stmt) : t.id > 2
    /\ Cardinality(generated_transactions(txns, lastOp.stmt)) = 1

\* --------------------------------------------------- concurrency claims
\* The <<type, amount>> pairs of the entries a statement with these fields
\* owns when its derived transactions are complete.
CompletePairs(row) ==
    {p \in {<<"PREMIUM", row.premiums>>, <<"WITHDRAWAL", row.withdrawals>>,
                 <<"TAX_WITHHOLDING", row.tax_withholding>>} : p[2] > 0}
    \cup {p \in {<<"NET_CHANGE", row.net_change>>} : p[2] # 0}

PairsOf(T) == {<<t.transaction_type, t.amount>> : t \in T}

\* C4: a reader of statement.generated_transactions, while one save
\* regenerates the entries of a persisted statement whose old and new fields
\* have non-zero activity, sees the complete entry set of the old or of the
\* new field values, never an empty or partial one.
C4_ReaderSeesCompleteSet ==
    query.op = "generated_transactions" =>
        \A me \in query.saving :
            (/\ ~me.is_new
             /\ CompletePairs(me.before) # {}
             /\ CompletePairs(me.row) # {}) =>
                /\ query.entries # {}
                /\ \/ PairsOf(query.entries) = CompletePairs(me.before)
                   \/ PairsOf(query.entries) = CompletePairs(me.row)

\* ----------------------------------------------------- chain claims
\* The statements of self's investment dated strictly before self.
StrictlyEarlier(self) ==
    {r \in Persisted : /\ stmts[r].investment = self.investment
                       /\ stmts[r].statement_date < self.statement_date}

\* r is a predecessor of self: of the same investment, dated strictly before
\* it, and no statement of the investment lies strictly between the two.
IsPredecessor(r, self) ==
    /\ r \in StrictlyEarlier(self)
    /\ \A q \in StrictlyEarlier(self) :
          stmts[q].statement_date <= stmts[r].statement_date

ChainReads == {"chains_with_previous", "chain_gap"}

\* C5: chains_with_previous is evaluated against a predecessor (0 only when
\* there is none), and when the predecessor is an annuity statement it is True
\* if and only if |beginning_value - predecessor.ending_value| < 0.01.
C5_ChainsIffWithinCent ==
    query.op = "chains_with_previous" =>
        /\ query.prev = 0 <=> StrictlyEarlier(query.self) = {}
        /\ query.prev # 0 => IsPredecessor(query.prev, query.self)
        /\ (query.prev # 0 /\ stmts[query.prev].kind = "annuity") =>
              (query.chains = "True"
                 <=> /\ query.self.has_beginning
                     /\ query.self.beginning_value
                            - stmts[query.prev].ending_value < Cent
                     /\ stmts[query.prev].ending_value
                            - query.self.beginning_value < Cent)

\* Continuity holds against the latest earlier statement although an older
\* statement of the investment ends on another value.
C5_Witness ==
    /\ query.op = "chains_with_previous"
    /\ query.prev # 0
    /\ stmts[query.prev].kind = "annuity"
    /\ query.chains = "True"
    /\ stmts[query.prev].ending_value = 100000
    /\ query.self.beginning_value = 100000
    /\ \E r \in StrictlyEarlier(query.self) :
          /\ stmts[r].statement_date < stmts[query.prev].statement_date
          /\ stmts[r].kind = "annuity"
          /\ stmts[r].ending_value # 100000

\* Entry e of get_statement_gaps describes the adjacent pair (o[j-1], o[j]).
DescribesPair(e, o, j) ==
    /\ stmts[o[j]].kind = "annuity"
    /\ stmts[o[j - 1]].kind = "annuity"
    /\ e.statement_date = stmts[o[j]].statement_date
    /\ e.previous_date = stmts[o[j - 1]].statement_date
    /\ e.current_beginning = stmts[o[j]].beginning_value
    /\ e.previous_ending = stmts[o[j - 1]].ending_value

\* C6: the reported gap is exactly the signed difference beginning_value -
\* predecessor.ending_value: in chain_gap whenever the predecessor is an
\* annuity statement (1000.50 after 1000.00 gives exactly 0.50), and in the
\* gap_amount of every entry of get_statement_gaps for the pair it describes.
C6_GapIsSignedDifference ==
    /\ (/\ query.op = "chain_gap"
        /\ query.prev # 0
        /\ stmts[query.prev].kind = "annuity"
        /\ query.self.has_beginning) =>
              /\ ~query.gap.is_none
              /\ query.gap.amount
                   = query.self.beginning_value - stmts[query.prev].ending_value
              /\ (query.self.beginning_value = 100050
                    /\ stmts[query.prev].ending_value = 100000)
                   => query.gap.amount = 50
    /\ query.op = "get_statement_gaps" =>
          \A k \in 1..Len(query.gaps) :
              LET e == query.gaps[k]
              IN /\ e.gap_amount = e.current_beginning - e.previous_ending
                 /\ \E j \in 2..Len(query.statements) :
                       /\ DescribesPair(e, query.statements, j)
                       /\ e.gap_amount
                            = stmts[query.statements[j]].beginning_value
                              - stmts[query.statements[j - 1]].ending_value

\* Continuity fails with a negative gap: the statement begins one cent below
\* the predecessor's ending value.
C6_Witness ==
    /\ query.op = "chain_gap"
    /\ query.prev # 0
    /\ ~query.gap.is_none
    /\ query.gap.amount = -1
    /\ query.self.beginning_value = 100000
    /\ stmts[query.prev].ending_value = 100001

\* C7: a statement with no statement of its investment dated strictly before
\* it reports that continuity holds, whatever its beginning_value is (unset
\* included), and reports no gap.
C7_FirstStatementChains ==
    (query.op \in ChainReads /\ StrictlyEarlier(query.self) = {}) =>
        /\ query.op = "chains_with_previous" => query.chains = "True"
        /\ query.op = "chain_gap" => query.gap.is_none

\* The first statement of annuityA has no beginning_value yet, while the
\* database holds a statement of the same date and one of another investment.
C7_Witness ==
    /\ query.op = "chains_with_previous"
    /\ ~query.self.has_beginning
    /\ StrictlyEarlier(query.self) = {}
    /\ query.chains = "True"
    /\ \E r \in Persisted : /\ stmts[r].investment = query.self.investment
                            /\ stmts[r].statement_date = query.self.statement_date
    /\ \E r \in Persisted : stmts[r].investment # query.self.investment

ChainDisplays == {"annuity_chains_display", "brokerage_chains_display"}

\* C8: when the predecessor exists and has no comparable balance, continuity
\* is "not applicable" (None), and the admin chains displays show that outcome
\* as "-", which is neither the mark of "holds" nor the mark of "fails".
C8_NotApplicableDistinct ==
    (/\ query.op \in ChainDisplays
     /\ query.prev # 0
     /\ stmts[query.prev].kind = "base") =>
        /\ query.chains = "None"
        /\ query.display.mark = "-"
        /\ query.display.mark \notin {"ok", "cross"}

\* C9: get_statement_gaps walks the investment's statements in ascending date
\* order and returns, in that order, exactly one entry for every adjacent pair
\* of annuity statements whose beginning_value and previous ending_value
\* differ by at least one cent, each with both dates, both values and the gap.
GapPairs(o) ==
    {j \in 2..Len(o) :
        /\ stmts[o[j]].kind = "annuity" /\ stmts[o[j - 1]].kind = "annuity"
        /\ \/ stmts[o[j]].beginning_value - stmts[o[j - 1]].ending_value >= Cent
           \/ stmts[o[j - 1]].ending_value - stmts[o[j]].beginning_value >= Cent}

FamilyOf(kind) ==
    CASE kind \in {"jackson", "tiaa", "valic"} -> "A"
      [] kind = "johnhancock401k" -> "B"
      [] kind = "mholdings" -> "C"

\* The required fields of a statement family.
FamilyRequired(family) ==
    CASE family = "A" ->
            {"statement_date", "period_start", "period_end", "beginning_value",
             "ending_value", "premiums", "withdrawals", "tax_withholding",
             "net_change"}
      [] family = "B" ->
            {"statement_date", "period_start", "period_end", "beginning_value",
             "ending_value", "employee_contributions", "employer_contributions",
             "investment_gain_loss", "withdrawals", "fees", "loan_payments"}
      [] family = "C" ->
            {"statement_date", "beginning_value", "ending_value", "deposits",
             "withdrawals", "dividends", "interest", "market_change", "fees"}

\* The reconciliation formula of a statement family.
FamilyExpectedEnding(family, d) ==
    CASE family = "A" ->
            d["beginning_value"] + d["premiums"] + d["net_change"]
                - d["withdrawals"] - d["tax_withholding"]
      [] family = "B" ->
            d["beginning_value"] + d["employee_contributions"]
                + d["employer_contributions"] + d["investment_gain_loss"]
                + d["loan_payments"] - d["withdrawals"] - d["fees"]
      [] family = "C" ->
            d["beginning_value"] + d["deposits"] - d["withdrawals"]
                + d["dividends"] + d["interest"] + d["capital_gains"]
                + d["market_change"] + d["other_activity"] - d["fees"]

\* validate has run on a field map that has every required field.
ValidatedComplete ==
    /\ parser.kind # "none"
    /\ parser.validation # NoValidation
    /\ FamilyRequired(FamilyOf(parser.kind)) \subseteq DOMAIN parser.data

\* C10: for each of the three statement families, when all required fields
\* are present, validate returns no error and zero warnings if
\* |ending_value - expected_ending| <= 1.00, and exactly one warning carrying
\* the expected value, the actual ending value and the difference if it is
\* > 1.00, with expected_ending given by the family's formula.
C10_WarningIffBeyondDollar ==
    ValidatedComplete =>
        LET d == parser.data
            v == parser.validation
            expected == FamilyExpectedEnding(FamilyOf(parser.kind), d)
            delta == IF d["ending_value"] >= expected
                     THEN d["ending_value"] - expected
                     ELSE expected - d["ending_value"]
        IN /\ v.outcome = "returned"
           /\ v.errors = <<>>
           /\ delta <= Dollar => v.warnings = <<>>
           /\ delta > Dollar =>
                 /\ Len(v.warnings) = 1
                 /\ v.warnings[1].expected = expected
                 /\ v.warnings[1].actual = d["ending_value"]
                 /\ v.warnings[1].difference = delta

\* A brokerage statement whose printed ending value is 1.01 below the
\* expected ending gets exactly one warning.
C10_Witness ==
    /\ ValidatedComplete
    /\ parser.kind = "mholdings"
    /\ parser.validation.outcome = "returned"
    /\ Len(parser.validation.warnings) = 1
    /\ parser.validation.warnings[1].difference = 101
    /\ parser.validation.warnings[1].actual < parser.validation.warnings[1].expected

\* |ending_value - expected_ending| of a complete field map.
Discrepancy ==
    LET expected == FamilyExpectedEnding(FamilyOf(parser.kind), parser.data)
        actual == parser.data["ending_value"]
    IN IF actual >= expected THEN actual - expected ELSE expected - actual

Flagged == parser.validation.warnings # <<>>

\* C11 as stated: a validated record is reconciled (within one cent for a
\* Family A record, as AnnuityStatement.reconciles tests it, within one dollar
\* for a record of the other families) or its validation result carries a
\* reconciliation-mismatch warning.
C11_ReconciledOrFlagged ==
    (ValidatedComplete /\ parser.validation.outcome = "returned") =>
        IF FamilyOf(parser.kind) = "A"
        THEN reconciles(parser.data) = "True" \/ Flagged
        ELSE Discrepancy <= Dollar \/ Flagged

\* C11 amended: a validated record of any of the three families is within
\* one dollar of its expected ending or its validation result carries a
\* reconciliation-mismatch warning; a Family A record that is off by one cent
\* up to one dollar passes without a warning although reconciles is False.
C11_WithinDollarOrFlagged ==
    ValidatedComplete =>
        /\ parser.validation.outcome = "returned"
        /\ Discrepancy <= Dollar \/ Flagged
        /\ (FamilyOf(parser.kind) = "A" /\ Discrepancy >= Cent
              /\ Discrepancy <= Dollar) =>
                /\ ~Flagged
                /\ reconciles(parser.data) = "False"

\* A Jackson statement whose printed ending value is 1.00 below the expected
\* ending: no warning, and the statement does not reconcile within one cent.
C11_Witness ==
    /\ ValidatedComplete
    /\ parser.kind = "jackson"
    /\ parser.data["ending_value"] + Dollar
         = FamilyExpectedEnding("A", parser.data)
    /\ ~Flagged
    /\ reconciles(parser.data) = "False"

\* The required-field list of a statement family, in its order.
FamilyRequiredList(family) ==
    CASE family = "A" ->
            <<"statement_date", "period_start", "period_end", "beginning_value",
              "ending_value", "premiums", "withdrawals", "tax_withholding",
              "net_change">>
      [] family = "B" ->
            <<"statement_date", "period_start", "period_end", "beginning_value",
              "ending_value", "employee_contributions", "employer_contributions",
              "investment_gain_loss", "withdrawals", "fees", "loan_payments">>
      [] family = "C" ->
            <<"statement_date", "beginning_value", "ending_value", "deposits",
              "withdrawals", "dividends", "interest", "market_change", "fees">>

\* validate has run, on whatever field map the parser holds.
Validated ==
    /\ parser.kind # "none"
    /\ parser.validation # NoValidation

\* C12: validate returns one error for each required field absent from the
\* field map and no other, in the order of the required-field list, and the
\* reconciliation check runs only when there is no error: a result never has
\* both errors and warnings.
C12_OneErrorPerMissingField ==
    Validated =>
        LET L == FamilyRequiredList(FamilyOf(parser.kind))
            v == parser.validation
            absent == {i \in 1..Len(L) : L[i] \notin DOMAIN parser.data}
        IN /\ v.outcome = "returned"
           /\ Len(v.errors) = Cardinality(absent)
           /\ \A i \in absent :
                 v.errors[Cardinality({j \in absent : j <= i})] = L[i]
           /\ ~(v.errors # <<>> /\ v.warnings # <<>>)
           /\ v.errors # <<>> => v.warnings = <<>>

\* The period line of a Jackson statement did not match: the three date
\* fields are reported, in the order of the list, and nothing is reconciled.
C12_Witness ==
    /\ Validated
    /\ parser.kind = "jackson"
    /\ parser.parsed
    /\ parser.validation.outcome = "returned"
    /\ parser.validation.errors = <<"statement_date", "period_start", "period_end">>
    /\ parser.validation.warnings = <<>>

\* The step is a call of validate.
IsValidateStep ==
    /\ parser.kind # "none"
    /\ parser'.kind # "none"
    /\ parser.validation = NoValidation
    /\ parser'.validation # NoValidation

\* C13: validate never changes the field map: the parser's data after
\* validate equals its data before, whether the outcome is error, warning or
\* clean.
C13_ValidateKeepsData ==
    [][IsValidateStep =>
          /\ parser'.data = parser.data
          /\ DOMAIN parser'.data = DOMAIN parser.data
          /\ parser'.kind = parser.kind]_vars

\* A validated brokerage field map with a reconciliation warning still shows
\* the printed ending value, not the expected one.
C13_Witness ==
    /\ Validated
    /\ parser.kind = "mholdings"
    /\ parser.validation.outcome = "returned"
    /\ parser.validation.warnings # <<>>
    /\ parser.data["ending_value"] = parser.validation.warnings[1].actual
    /\ parser.data["ending_value"] # parser.validation.warnings[1].expected

\* ------------------------------------------------ text recovery claims
\* The parses the state records: the one of ParseDocument (in parser) or the
\* one inside ParseStatement (in query).
Runs ==
    IF parser.kind # "none" /\ "ran" \in DOMAIN parser THEN {parser}
    ELSE IF query.op = "parse_statement" THEN {query}
    ELSE {}

StagesRun(r) == {r.ran[i] : i \in 1..Len(r.ran)}

\* ran is the head of the order direct, alternate, OCR, and each stage after
\* the first ran only after a stage that stayed below the threshold.
InOrderAndGated(r) ==
    /\ \E n \in 1..Len(Stages) : r.ran = SubSeq(Stages, 1, n)
    /\ \A i \in 2..Len(r.ran) : r.doc[r.ran[i - 1]] < MinUsable
    /\ "ocr" \in StagesRun(r) =>
            r.doc["plumber"] < MinUsable /\ r.doc["pypdf"] < MinUsable

OnlyOcrUsable(doc) ==
    /\ ~doc.plumber_raises
    /\ doc["plumber"] < MinUsable
    /\ doc["pypdf"] < MinUsable
    /\ doc["ocr"] >= MinUsable

\* C15 as stated: when both text-layer stages stay below the threshold and
\* OCR yields usable text, the text handed to field extraction is the OCR
\* output, in every extractor.
C15_TextIsOcrOutput ==
    \A r \in Runs : OnlyOcrUsable(r.doc) => r.text = Out(r.doc, "ocr")

\* C15, amended: in that case the text handed to field extraction is the OCR
\* output in the Jackson, Valic and M Holdings extractors; in the John Hancock
\* extractor it is the OCR output with its reversed lines reversed back when
\* it holds a reversed keyword; in the TIAA extractor it is the OCR output, a
\* newline and the below-threshold text of the alternate text-layer stage.
C15_TextIsOcrOutputOrBuiltOnIt ==
    \A r \in Runs : OnlyOcrUsable(r.doc) =>
        /\ r.text.len >= r.doc["ocr"]
        /\ CASE r.kind = "tiaa" ->
                    /\ r.text.parts = <<"ocr", "\n">> \o Out(r.doc, "pypdf").parts
                    /\ r.text.len = r.doc["ocr"]
                            + (IF r.doc["pypdf"] > 0 THEN 1 + r.doc["pypdf"] ELSE 0)
             [] r.kind = "johnhancock401k" /\ r.doc.content.reversed ->
                    /\ r.text.parts = <<"line[::-1] of", "ocr">>
                    /\ r.text.len = r.doc["ocr"]
             [] OTHER -> r.text = Out(r.doc, "ocr")

\* A TIAA parse of a scanned statement whose alternate text-layer stage gave
\* 40 characters: they follow the OCR output in the text that is parsed.
C15_Witness ==
    \E r \in Runs :
        /\ r.kind = "tiaa"
        /\ OnlyOcrUsable(r.doc)
        /\ r.doc["pypdf"] > 0
        /\ r.raised = "none"
        /\ r.text.parts = <<"ocr", "\n", "pypdf">>

\* The case of C16: pdfplumber opens the document and every stage yields
\* less than the threshold.
AllBelow(doc) ==
    /\ ~doc.plumber_raises
    /\ \A i \in 1..Len(Stages) : doc[Stages[i]] < MinUsable

\* C16: when all recovery stages yield text below the threshold, parse raises
\* the extraction failure, hands no partial text to any field-parsing step,
\* leaves the parser's data empty, and parse_statement returns no pair.
C16_ExhaustionRaises ==
    \A r \in Runs : AllBelow(r.doc) =>
        /\ r.raised = ExtractionFailure
        /\ r.text = NoText
        /\ r.data = EmptyData
        /\ "returned" \in DOMAIN r => ~r.returned

\* C17: parse_statement raises only when every text-recovery stage is
\* exhausted below the threshold; whenever some stage recovers usable text it
\* returns the pair (field map, validation result), whatever the text says.
C17_RaisesOnlyOnExhaustion ==
    query.op = "parse_statement" =>
        /\ ~query.returned => \A i \in 1..Len(Stages) : query.doc[Stages[i]] < MinUsable
        /\ (~query.doc.plumber_raises
            /\ \E i \in 1..Len(Stages) : query.doc[Stages[i]] >= MinUsable)
                => query.returned /\ query.validation.outcome = "returned"

\* ------------------------------------------------- classifier claims
\* The order of the signature checks, and the tag of the first check in that
\* order whose terms are all in the text; 'unknown' when there is none.
SignatureOrder == <<"mholdings", "johnhancock401k", "valic", "tiaa", "jackson">>

MatchingChecks(tokens) ==
    {i \in 1..Len(SignatureOrder) : SignatureOf(SignatureOrder[i]) \subseteq tokens}

FirstMatchingTag(tokens) ==
    IF MatchingChecks(tokens) = {} THEN "unknown"
    ELSE SignatureOrder[CHOOSE i \in MatchingChecks(tokens) :
                            \A j \in MatchingChecks(tokens) : i <= j]

\* C18 as stated: _detect_statement_type returns the tag of the first
\* matching signature in the order M Holdings, John Hancock 401k,
\* Valic/Corebridge, TIAA, Jackson, and 'unknown' when none matches; a text
\* matching several signatures always gets the earliest tag.
C18_FirstMatchingSignature ==
    query.op = "detect" => query.tag = FirstMatchingTag(TextTokens(query.doc))

\* C18, amended: that holds when pdfplumber reads the document and the
\* collected text has at least 50 stripped characters; otherwise the tag is
\* 'unknown' whatever signatures the text matches.
C18_FirstMatchingSignatureOfLongText ==
    query.op = "detect" =>
        IF query.doc.plumber_raises \/ DetectText(query.doc).len < MinDetect
        THEN query.tag = "unknown"
        ELSE query.tag = FirstMatchingTag(TextTokens(query.doc))

\* A text with the Corebridge, TIAA and Jackson terms is tagged 'valic'.
C18_Witness ==
    /\ query.op = "detect"
    /\ query.doc.content.tokens = {"valic", "tiaa", "jackson"}
    /\ DetectText(query.doc).len >= MinDetect
    /\ query.tag = "valic"

\* C19: when the classifier returns 'unknown', also because detection itself
\* failed, parse_statement runs the default (Jackson) extractor and, if some
\* stage can recover usable text, returns the degraded field map with one
\* validation error for each missing required field.
C19_UnknownStillExtracts ==
    (query.op = "parse_statement" /\ query.tag = "unknown") =>
        /\ query.kind = "jackson"
        /\ (\E i \in 1..Len(Stages) : query.doc[Stages[i]] >= MinUsable) =>
                /\ query.returned
                /\ query.validation.outcome = "returned"
                /\ \A f \in FamilyRequired("A") :
                      f \notin DOMAIN query.data <=>
                        \E k \in 1..Len(query.validation.errors) :
                            query.validation.errors[k] = f

\* ------------------------------------------------- currency claims
\* C20: for every amount, _parse_currency of the decorated form
\* ("$1,234.56") and of the plain form ("1234.56") return the same value, and
\* _parse_currency of the parenthesized form ("(500.00)") returns the negative
\* of what it returns for the plain form ("500.00").
C20_DecoratedSameParenthesizedNegative ==
    query.op = "parse_currency" =>
        LET res == query.results
        IN /\ {"plain", "decorated"} \subseteq DOMAIN res =>
                /\ res["plain"].outcome = "returned"
                /\ res["decorated"] = res["plain"]
           /\ {"plain", "parenthesized"} \subseteq DOMAIN res =>
                /\ res["parenthesized"].outcome = "returned"
                /\ res["parenthesized"].coefficient = -res["plain"].coefficient
                /\ res["parenthesized"].places = res["plain"].places

\* ------------------------------------------------- field extraction claims
\* The fields with a plain and a parenthesised rule: the field, its two
\* rules, and the rule whose amount the parser adds to the field ("none" when
\* there is no such rule).
SignedFields(kind) ==
    CASE kind = "jackson" ->
            {[field |-> "net_change", plain |-> "net_change",
              paren |-> "net_change_paren", plus |-> "none"]}
      [] kind = "tiaa" ->
            {[field |-> "net_change", plain |-> "gains_loss",
              paren |-> "gains_loss_paren", plus |-> "tiaa_interest"]}
      [] kind = "valic" ->
            {[field |-> "net_change", plain |-> "net_change",
              paren |-> "net_change_paren", plus |-> "none"]}
      [] kind = "johnhancock401k" ->
            {[field |-> "investment_gain_loss", plain |-> "investment_gain_loss",
              paren |-> "investment_gain_loss_paren", plus |-> "dividends_interest"]}
      [] kind = "mholdings" ->
            {[field |-> "deposits", plain |-> "additions",
              paren |-> "additions_paren", plus |-> "none"],
             [field |-> "market_change", plain |-> "market_change",
              paren |-> "market_change_paren", plus |-> "none"],
             [field |-> "fees", plain |-> "fees",
              paren |-> "fees_paren", plus |-> "none"],
             [field |-> "other_activity", plain |-> "other_activity",
              paren |-> "other_activity_paren", plus |-> "none"]}

\* The parses that returned a field map of the statement lines of their own
\* vendor.
Extractions == {r \in Runs : r.raised = "none" /\ r.doc.content.lines = r.kind}

\* C21: for every field with a plain and a parenthesised rule the first rule
\* that matches populates the field: the plain rule gives the captured value,
\* and when only the parenthesised rule matches the field is the negated
\* captured magnitude (plus the interest or dividends the parser adds to it).
C21_FirstMatchingFormPopulates ==
    \A r \in Extractions : \A f \in SignedFields(r.kind) :
        LET m == r.doc.content.m
            plus == IF Matched(m, f.plus) THEN m[f.plus] ELSE 0
        IN /\ Matched(m, f.plain) => r.data[f.field] = m[f.plain] + plus
           /\ (~Matched(m, f.plain) /\ Matched(m, f.paren)) =>
                    r.data[f.field] = -m[f.paren] + plus

\* The field names of the output contract, per statement family, the optional
\* ones included.
Vocabulary(family) ==
    CASE family = "A" ->
            {"statement_date", "period_start", "period_end", "beginning_value",
             "ending_value", "premiums", "withdrawals", "tax_withholding", "net_change",
             "remaining_guaranteed_balance", "death_benefit", "policy_number"}
      [] family = "B" ->
            {"statement_date", "period_start", "period_end", "beginning_value",
             "ending_value", "employee_contributions", "employer_contributions",
             "investment_gain_loss", "withdrawals", "fees", "loan_payments",
             "vested_balance", "account_number"}
      [] family = "C" ->
            {"statement_date", "period_start", "period_end", "beginning_value",
             "ending_value", "deposits", "withdrawals", "dividends", "interest",
             "capital_gains", "market_change", "fees", "other_activity",
             "money_market", "equities", "fixed_income", "account_number"}

\* The field maps that parse returned.
Returned == {r \in Runs : r.raised = "none"}

\* C22 as stated: every field map an extractor returns has only keys of the
\* vocabulary of its statement family.
C22_OnlyVocabularyKeys ==
    \A r \in Returned : DOMAIN r.data \subseteq Vocabulary(FamilyOf(r.kind))

\* The keys the extractors add to the vocabulary of their family.
ExtraKeys(kind) ==
    CASE kind = "jackson" ->
            {"earnings_determination_baseline",
             "guaranteed_withdrawal_balance_bonus_baseline"}
      [] kind = "johnhancock401k" -> {"participant_number"}
      [] kind = "mholdings" -> {"total_income"}
      [] OTHER -> {}

\* C22, amended: every key of a returned field map is in the vocabulary of
\* the extractor's family or is one of the extractor's own additions:
\* earnings_determination_baseline and
\* guaranteed_withdrawal_balance_bonus_baseline (Jackson), participant_number
\* (John Hancock), total_income (M Holdings); the TIAA and Valic extractors
\* add none.
C22_VocabularyAndExtraKeys ==
    \A r \in Returned :
        DOMAIN r.data \subseteq Vocabulary(FamilyOf(r.kind)) \cup ExtraKeys(r.kind)

\* A John Hancock field map with the account number, the vested balance and
\* the participant number of the statement.
C22_Witness ==
    \E r \in Returned :
        /\ r.kind = "johnhancock401k"
        /\ {"account_number", "vested_balance", "participant_number"} \subseteq DOMAIN r.data
        /\ DOMAIN r.data \ Vocabulary("B") = {"participant_number"}

\* ------------------------------------------------------------------ C23
\* A confirm_import request that found pending data whose validation result
\* has an error, submitted with the pre-filled values as they are.
UnchangedConfirmOfInvalid ==
    /\ lastOp.op = "confirm_import"
    /\ lastOp.pending
    /\ lastOp.before["validation_result"].errors # <<>>
    /\ lastOp.post = PrefilledPost(lastOp.before["parsed_statement_data"],
                                   lastOp.before["parsed_statement_data"].matched_annuity_id)

\* C23: a parsed record whose validation result contains an error is not
\* persisted as it is: confirm_import submitted with the pre-filled values
\* left unchanged creates no statement.
C23_InvalidRecordNotPersisted ==
    UnchangedConfirmOfInvalid => lastOp.statement = 0

\* ------------------------------------------------------------------ C24
\* C24: deleting a statement deletes every transaction whose
\* source_statement is that statement and no other transaction: entries made
\* by hand and those generated by other statements of the investment remain.
C24_DeleteRemovesExactlyGenerated ==
    lastOp.op = "delete" =>
        /\ \A t \in lastOp.before :
              t \in txns <=> t.source_statement # lastOp.stmt
        /\ txns \subseteq lastOp.before

\* A delete that took entries away while an entry made by hand for the same
\* investment and an entry of another statement of it stayed.
C24_Witness ==
    /\ lastOp.op = "delete"
    /\ \E t \in lastOp.before : t.source_statement = lastOp.stmt
    /\ \E t \in txns : t.source_statement = 0 /\ t.investment = lastOp.row.investment
    /\ \E t \in txns : t.source_statement \notin {0, lastOp.stmt}
                       /\ t.investment = lastOp.row.investment

\* ------------------------------------------------------------------ C25
\* C25: in John Hancock text recovery every line that contains a known
\* reversed-keyword token or a reversed-currency numeral shape is replaced by
\* its character-reversed form, every other line is left unchanged, and the
\* number and order of the lines are preserved.
C25_MarkedLinesReversed ==
    (query.op = "reverse_lines" /\ query.done) =>
        LET lines == Split(query.text)
            out == Split(query.out)
        IN /\ Len(out) = Len(lines)
           /\ \A i \in 1..Len(lines) :
                 out[i] = IF IsReversedLine(lines[i]) THEN Reversed(lines[i])
                          ELSE lines[i]

\* ------------------------------------------------------------------ C26
\* C26: after any sequence of InvestmentValue saves and add_investment_value
\* requests, in any date order, investment.current_price equals the price of
\* the historical value with the latest date.
C26_CurrentPriceIsLatest ==
    investment.historical_values # {} =>
        investment.current_price = latest_value(investment.historical_values).price

\* ------------------------------------------------------------------ C27
\* C27: for every statement history of an annuity, several statements on one
\* date and non-annuity statements in between included, get_statement_gaps
\* has an entry for statement S if and only if S.chains_with_previous is
\* False, and the entry's gap_amount is S.chain_gap.
C27_GapsMatchChainFlags ==
    query.op = "get_statement_gaps" =>
        LET o == query.statements
            reported(i) == i >= 2 /\ IsGap(o[i], o[i - 1])
        IN \A i \in 1..Len(o) :
              HasAnnuityStatement(o[i]) =>
                  \A prev \in PreviousChoices(InstanceOf(o[i])) :
                     /\ reported(i) <=>
                           chains_with_previous(InstanceOf(o[i]), prev) = "False"
                     /\ reported(i) =>
                           chain_gap(InstanceOf(o[i]), prev)
                              = Gap(GapEntry(o[i], o[i - 1]).gap_amount)

\* ------------------------------------------------------------------ C28
\* calculated_change equals ending_value to the cent.
ReconcilesExactly(s) ==
    stmts[s].ending_value =
        stmts[s].beginning_value + stmts[s].premiums + stmts[s].net_change
            - stmts[s].withdrawals - stmts[s].tax_withholding

\* The beginning value is the ending value of the statement before it.
ChainsExactly(inv, s) ==
    \A prev \in PreviousChoices(InstanceOf(s)) :
        prev # 0 => /\ HasAnnuityStatement(prev)
                    /\ stmts[s].beginning_value = stmts[prev].ending_value

\* The history the claim is about: annuity statements only, on distinct
\* dates, non-negative premiums, withdrawals and tax, each reconciling and
\* chaining exactly, and no transaction entered by hand.
WellFormedHistory(inv) ==
    /\ StatementsOf(inv) # {}
    /\ \A s \in StatementsOf(inv) :
          /\ HasAnnuityStatement(s)
          /\ stmts[s].premiums >= 0 /\ stmts[s].withdrawals >= 0
          /\ stmts[s].tax_withholding >= 0
          /\ ReconcilesExactly(s)
          /\ ChainsExactly(inv, s)
          /\ \A r \in StatementsOf(inv) :
                r # s => stmts[r].statement_date # stmts[s].statement_date
    /\ \A t \in txns : t.investment = inv => t.source_statement # 0

\* C28: for an annuity whose only transactions are statement-generated and
\* whose statements have distinct dates, non-negative premiums, withdrawals
\* and tax, and each reconcile and chain exactly, current_value of
\* get_performance_breakdown() is the ending value of the latest statement,
\* which is Annuity.current_value.
C28_BreakdownIsLatestEnding ==
    (query.op = "get_performance_breakdown" /\ WellFormedHistory(query.investment)) =>
        \A latest \in LatestChoices(query.investment) :
            /\ query.breakdown.current_value = stmts[latest].ending_value
            /\ current_value(query.investment, latest) = stmts[latest].ending_value

\* The breakdown of a history of two statements, one of them saved again.
C28_Witness ==
    /\ query.op = "get_performance_breakdown"
    /\ WellFormedHistory(query.investment)
    /\ Cardinality(StatementsOf(query.investment)) = 2
    /\ \E s \in StatementsOf(query.investment) :
          /\ generated_transactions(txns, s) # {}
          /\ \A t \in generated_transactions(txns, s) : t.id > 5
    /\ query.breakdown.current_value # query.breakdown.initial_balance

\* ------------------------------------------------------------------ C29
\* C29: two concurrent saves of the same persisted statement with identical
\* field values leave, in every interleaving of their delete and create
\* steps, exactly one derived transaction per non-zero activity field.
C29_OneEntryPerFieldAfterSaves ==
    Active = {} =>
        \A s \in Persisted : \A i \in 1..4 :
            Cardinality({t \in generated_transactions(txns, s) :
                            t.transaction_type = GeneratedTypes[i]})
                = IF Applicable(stmts[s], GeneratedTypes[i]) THEN 1 ELSE 0

\* ------------------------------------------------------------------ C30
\* parsed_statement_data is in the session.
Pending == "parsed_statement_data" \in DOMAIN session

\* C30: confirm_import creates a statement only while parsed_statement_data
\* is pending, and a successful confirm or a cancel removes the pending data;
\* so, over any sequence of upload, confirm and cancel requests of a session,
\* the statements created and the upload still pending never outnumber the
\* uploads stored, and a confirm without pending data creates nothing.
C30_AtMostOneStatementPerUpload ==
    /\ Created + (IF Pending THEN 1 ELSE 0) <= Stored
    /\ lastOp.op = "confirm_import" =>
          /\ lastOp.statement # 0 => lastOp.pending /\ ~Pending
          /\ ~lastOp.pending => lastOp.statement = 0 /\ ~Pending
    /\ lastOp.op = "cancel_import" => ~Pending

\* A second statement created from a second upload, and a confirm that was
\* sent again after the first one had succeeded.
C30_Witness ==
    /\ lastOp.op = "confirm_import"
    /\ \/ lastOp.statement # 0 /\ Created = 2
       \/ ~lastOp.pending /\ Created = 1 /\ lastOp.statement = 0

====
